---- MODULE Spec2Model ----
(***************************************************************************)
(* Rockbot chat client: the ChatInterface component of                     *)
(* frontend/rockbot-ui/src/components/ChatInterface.jsx, rendered by       *)
(* main.jsx inside React.StrictMode, together with the browser's           *)
(* localStorage and the REST backend it talks to; and the ChatInterface of  *)
(* components/ui/badge.jsx with its three-step deleteMessage and its       *)
(* reactMessage.                                                           *)
(*                                                                         *)
(* React state is one variable per useState hook.  An async handler keeps  *)
(* the values of the render it was created in (its closure); what it still *)
(* uses after an await is stored with the request in flight.  A response   *)
(* is one step: the backend serves the request and the continuation of the *)
(* handler runs.                                                           *)
(***************************************************************************)
EXTENDS Integers, Sequences, FiniteSets, Bags, TLC

\* ------------------------------------------------------------------ bounds
MaxSends == 1
MaxNewConvs == 1
MaxLoads == 2
MaxDeletes == 2
MaxUploads == 2
MaxEdits == 1
MaxConvDeletes == 1
MaxReacts == 2

\* --------------------------------------------------------------- constants
TitleMax == 30
ScrollTolerance == 10
SP == " "

Null == <<"null", 0>>
Undefined == <<"undefined", 0>>
\* updated_at: 0 as created or served, n once the reply of send n refreshed it
NoConv == [id |-> Null, title |-> <<"null">>, updated_at |-> 0]
NoFile == [name |-> "null", data |-> "null"]
NoReq == [kind |-> "none"]
NoSend == [status |-> "none", n |-> 0, message |-> <<>>]

LS_THEME_KEY == "rockbot_theme_v1"
LS_DELETED_KEY == "rockbot_deleted_msgs_v1"

\* an agent mapping is the sequence of its entries in key insertion order
FALLBACK_AGENTS ==
  << [key |-> "general", name |-> "General Assistant"],
     [key |-> "translator", name |-> "Translator"],
     [key |-> "creative", name |-> "Creative Writer"],
     [key |-> "coder", name |-> "Code Assistant"] >>

SorryText == <<"Sorry, I couldn't process that request.">>
HelloText == <<"Hello! How can I help you today?">>
MockConversation ==
  [id |-> <<"conv-mock-", 1>>, title |-> <<"Mock Conversation 1">>, updated_at |-> 0]

\* --------------------------------------------------------------- variables
VARIABLES
  pc,                   \* "mounting": rendered, effects not yet run; "ready"
  conversations, currentConversation, messages, input, isSending, isTyping,
  agents, selectedAgent, theme, uploadedFile,
  curFromList,          \* currentConversation is the very object held in conversations
  lsTheme, lsDeleted,   \* localStorage
  htmlDark,             \* 'dark' class on <html>
  srv,                  \* backend store: conversation id -> messages
  chatReq, loadReqs, delReqs, convReqs, agentReqs,   \* requests in flight
  sendNo, nConv,        \* uid() calls so far, per prefix
  editingId, editingText,
  manualScroll,
  viewDist,             \* DOM: pixels between the view and the bottom of the list
  isUploading,          \* state of FileUploaderInline
  putReqs, uploadReq,   \* more requests in flight
  chatInFlight,         \* number of POST /api/chat fetches not yet settled
  nChosen, nCompleted,  \* files chosen, onUploadComplete calls, on this page
  convDelReqs,          \* DELETE /conversations/{id} requests in flight
  srvGone,              \* backend store: ids of the conversations it deleted
  \* the ChatInterface of components/ui/badge.jsx (lines 811-1536), a second
  \* component with hooks of its own:
  bMounted,             \* its mount effects have run
  bConversations, bCurrentConversation, bMessages,
  bDeleted,             \* localStorage[LS_DELETED_KEY] as it reads and writes it
  bConvReqs, bLoadReqs, bChatReqs, bDelReqs, bReactReqs,   \* its requests in flight
  bSendNo, bReactNo,    \* its sendMessage and reactMessage calls so far
  srvReactions,         \* backend store: the reactions it accepted
  \* history, read by no action:
  lastSend,             \* the latest sendMessage and its outcome, until the user
                        \* selects, starts or deletes something
  deletedIds,           \* ids of the messages deleteMessage was called with
  deletedInFlight,      \* those of them whose POST /chat was still in flight
  lastConfirm,          \* the answer to the latest confirm() dialog
  reloadedTheme         \* theme at the latest page reload

vars == <<pc, conversations, currentConversation, messages, input,
          isSending, isTyping, agents, selectedAgent, theme,
          uploadedFile, curFromList, lsTheme, lsDeleted, htmlDark, srv,
          chatReq, loadReqs, delReqs, convReqs, agentReqs, sendNo, nConv,
          editingId, editingText, manualScroll, viewDist, isUploading,
          putReqs, uploadReq, chatInFlight, nChosen, nCompleted,
          convDelReqs, srvGone, bMounted, bConversations, bCurrentConversation,
          bMessages, bDeleted, bConvReqs, bLoadReqs, bChatReqs, bDelReqs,
          bReactReqs, bSendNo, bReactNo, srvReactions,
          lastSend, deletedIds, deletedInFlight, lastConfirm, reloadedTheme>>

editVars == <<editingId, editingText, putReqs>>
scrollVars == <<manualScroll, viewDist>>
uploadVars == <<isUploading, uploadReq, nChosen, nCompleted>>
badgeVars == <<bMounted, bConversations, bCurrentConversation, bMessages,
               bDeleted, bConvReqs, bLoadReqs, bChatReqs, bDelReqs,
               bReactReqs, bSendNo, bReactNo, srvReactions>>
\* everything but the backend's stores and the state of badge.jsx
mainVars == <<pc, conversations, currentConversation, messages, input,
              isSending, isTyping, agents, selectedAgent, theme,
              uploadedFile, curFromList, lsTheme, lsDeleted, htmlDark,
              chatReq, loadReqs, delReqs, convReqs, agentReqs, sendNo, nConv,
              editVars, scrollVars, uploadVars, chatInFlight, convDelReqs,
              lastSend, deletedIds, deletedInFlight, lastConfirm, reloadedTheme>>



\* ----------------------------------------------------------------- helpers
Min(a, b) == IF a < b THEN a ELSE b

RECURSIVE TrimLeft(_)
TrimLeft(s) == IF s # <<>> /\ Head(s) = SP THEN TrimLeft(Tail(s)) ELSE s

RECURSIVE TrimRight(_)
TrimRight(s) ==
  IF s # <<>> /\ s[Len(s)] = SP THEN TrimRight(SubSeq(s, 1, Len(s) - 1)) ELSE s

\* String.prototype.trim
Trim(s) == TrimRight(TrimLeft(s))

\* obj.field of a JSON object: undefined when the field is absent
Field(obj, f) == IF f \in DOMAIN obj THEN obj[f] ELSE Undefined

\* a || b
OrElse(a, b) == IF a = Undefined \/ a = Null THEN b ELSE a

\* currentConversation?.id
ConvIdOf(c) == IF c = NoConv THEN Undefined ELSE c.id

\* new Date().toISOString(): the clock reading a message carries, kept as the
\* call that read it (the call that made the message, or saveEditedMessage).
CreatedAt == "created"
EditedAt == "edited"

Msg(id, role, content, conv) ==
  [id |-> id, role |-> role, content |-> content, conv |-> conv,
   timestamp |-> CreatedAt]

Includes(s, x) == \E i \in 1..Len(s) : s[i] = x

\* userMessage.substring(0, 30) + (userMessage.length > 30 ? "..." : "")
TitleOf(userMessage) ==
  SubSeq(userMessage, 1, Min(TitleMax, Len(userMessage)))
    \o (IF Len(userMessage) > TitleMax THEN <<"...">> ELSE <<>>)

\* ------------------------------------------------ localStorage deleted map
EmptyDeletedMap(ids) == [c \in ids |-> <<>>]

isMessageLocallyDeleted(map, conversationId, msgId) ==
  Includes(map[conversationId], msgId)

markMessageDeletedLocally(map, conversationId, msgId) ==
  IF Includes(map[conversationId], msgId) THEN map
  ELSE [map EXCEPT ![conversationId] = Append(@, msgId)]

removeLocalDeletedMark(map, conversationId, msgId) ==
  LET Keep(id) == id # msgId
  IN  [map EXCEPT ![conversationId] = SelectSeq(@, Keep)]

\* ------------------------------------------------------------- the backend
SeedConvA == [id |-> <<"srv-conv-", 1>>, title |-> <<"Title A">>, updated_at |-> 0]
SeedConvB == [id |-> <<"srv-conv-", 2>>, title |-> <<"Title B">>, updated_at |-> 0]
SeedConversations == <<SeedConvA, SeedConvB>>

\* String(currentConversation?.id || "local"), String(currentConversation?.id || "")
LocalKey == <<"local", 0>>
EmptyKey == <<"", 0>>

\* GET /conversations: the stored conversations
ServerConversations(gone) ==
  LET Stored(c) == c.id \notin gone
  IN  SelectSeq(SeedConversations, Stored)

\* DELETE /conversations/{id}
ServerDeleteConversation(store, id) == [store EXCEPT ![id] = <<>>]

AllConvIds ==
  {SeedConvA.id, SeedConvB.id, MockConversation.id, Undefined}
    \cup {<<"conv-", n>> : n \in 1..(MaxNewConvs + 1)}
    \cup {<<"srv-new-", n>> : n \in 1..MaxSends}

BadgeKeys == AllConvIds \cup {LocalKey, EmptyKey}

SeedStore ==
  [c \in AllConvIds |->
     IF c = SeedConvA.id
       THEN << Msg(<<"srv-u-", 0>>, "user", <<"q">>, c),
               Msg(<<"srv-a-", 0>>, "assistant", <<"r">>, c) >>
     ELSE IF c = SeedConvB.id
       THEN << Msg(<<"srv-u-", 9>>, "user", <<"p">>, c) >>
     ELSE <<>>]

AiText == <<"ai-reply">>
ServerTitle == <<"Server title">>

\* POST /api/chat -> {ai_response, conversation_id, user_message_id}; withId:
\* the body carries its optional fields, among them the conversation_title
\* the client looks for
ChatReply(convId, n, withId) ==
  IF withId
    THEN [ai_response |-> AiText, conversation_id |-> convId,
          user_message_id |-> <<"srv-u-", n>>, conversation_title |-> ServerTitle]
    ELSE [ai_response |-> AiText, conversation_id |-> convId]

ServerStoreChat(store, convId, n, message) ==
  [store EXCEPT ![convId] =
     @ \o << Msg(<<"srv-u-", n>>, "user", message, convId),
             Msg(<<"srv-a-", n>>, "assistant", AiText, convId) >>]

ServerHasMessage(store, id) ==
  \E c \in DOMAIN store : \E i \in 1..Len(store[c]) : store[c][i].id = id

ServerDeleteMessage(store, id) ==
  LET Keep(m) == m.id # id
  IN  [c \in DOMAIN store |-> SelectSeq(store[c], Keep)]

\* ------------------------------------------------------- requests in flight
LoadCount == BagCardinality(loadReqs)

\* a chat reply that will change currentConversation starts one more load
ReservedLoads ==
  IF chatReq # NoReq /\ chatReq.convId = ConvIdOf(chatReq.cur) THEN 1 ELSE 0

LoadRoom == LoadCount + ReservedLoads < MaxLoads

One(x) == SetToBag({x})

Inputs == { <<>>, <<SP>>, <<SP, "a">> }

\* -------------------------------------------------------------------- Init
Init ==
  /\ pc = "mounting"
  /\ conversations = <<>>
  /\ currentConversation = NoConv
  /\ messages = <<>>
  /\ input = <<>>
  /\ isSending = FALSE
  /\ isTyping = FALSE
  /\ agents = FALLBACK_AGENTS
  /\ selectedAgent = "general"
  /\ theme = "light"
  /\ uploadedFile = NoFile
  /\ curFromList = FALSE
  /\ lsTheme = "null"
  /\ lsDeleted = EmptyDeletedMap(AllConvIds)
  /\ htmlDark = FALSE
  /\ srv = SeedStore
  /\ chatReq = NoReq
  /\ loadReqs = EmptyBag
  /\ delReqs = EmptyBag
  /\ convReqs = 0
  /\ agentReqs = 0
  /\ sendNo = 0
  /\ nConv = 0
  /\ editingId = Null
  /\ editingText = <<>>
  /\ manualScroll = FALSE
  /\ viewDist = 0
  /\ isUploading = FALSE
  /\ putReqs = EmptyBag
  /\ uploadReq = NoReq
  /\ chatInFlight = 0
  /\ nChosen = 0
  /\ nCompleted = 0
  /\ convDelReqs = EmptyBag
  /\ srvGone = {}
  /\ bMounted = FALSE
  /\ bConversations = <<>>
  /\ bCurrentConversation = NoConv
  /\ bMessages = <<>>
  /\ bDeleted = EmptyDeletedMap(BadgeKeys)
  /\ bConvReqs = EmptyBag
  /\ bLoadReqs = EmptyBag
  /\ bChatReqs = EmptyBag
  /\ bDelReqs = EmptyBag
  /\ bReactReqs = EmptyBag
  /\ bSendNo = 0
  /\ bReactNo = 0
  /\ srvReactions = EmptyBag
  /\ deletedInFlight = {}
  /\ lastConfirm = "none"
  /\ lastSend = NoSend
  /\ deletedIds = {}
  /\ reloadedTheme = "none"


\* ------------------------------------------------------------------ scroll
\* <ScrollArea ref={scrollRef}>: ScrollArea is a function component that
\* takes {children, className} and passes no ref to its <div>, so
\* scrollRef.current keeps the null useRef(null) gave it
ScrollRefCurrent == Null

\* ------------------------------------------------------------------- theme
\* first theme effect: localStorage.getItem(LS_THEME_KEY) || "light"
StoredTheme(ls) == IF ls = "null" THEN "light" ELSE ls

ApplyTheme_ClassOnly(t) == [html |-> (t = "dark"), ls |-> "light"]
\* second theme effect, run with the theme of the render it belongs to
ApplyTheme(t) == [html |-> (t = "dark"), ls |-> t]

\* The commit of the first render.  Both theme effects run in declaration
\* order with theme still at its initial value; a development build under
\* StrictMode runs the mount effects a second time before any queued state
\* update is processed.  Then the queued setTheme calls are applied and, when
\* theme changed, the second effect runs again in the new render.
MountTheme(dev, t0, ls0) ==
  LET q1 == StoredTheme(ls0)
      a1 == ApplyTheme(t0)
      q2 == IF dev THEN StoredTheme(a1.ls) ELSE q1
      a2 == IF dev THEN ApplyTheme(t0) ELSE a1
      t1 == q2
      a3 == IF t1 # t0 THEN ApplyTheme(t1) ELSE a2
  IN  [theme |-> t1, html |-> a3.html, ls |-> a3.ls]

Flip(prev) == IF prev = "light" THEN "dark" ELSE "light"

\* mount effects of ChatInterface: theme, loadConversations + loadAgents,
\* loadMessages with no conversation.  dev: the bundle is a development
\* build, where StrictMode runs every mount effect twice
Mount(dev) ==
  /\ pc = "mounting"
  /\ pc' = "ready"
  /\ LET m == MountTheme(dev, theme, lsTheme)
     IN  /\ theme' = m.theme
         /\ htmlDark' = m.html
         /\ lsTheme' = m.ls
  /\ convReqs' = IF dev THEN 2 ELSE 1
  /\ agentReqs' = IF dev THEN 2 ELSE 1
  /\ messages' = <<>>
  /\ UNCHANGED <<conversations, currentConversation, input, isSending,
                 isTyping, agents, selectedAgent, uploadedFile, curFromList,
                 lsDeleted, srv, chatReq, loadReqs, delReqs, sendNo, nConv>>
  /\ UNCHANGED <<lastSend, deletedIds, reloadedTheme>>
  /\ UNCHANGED <<editVars, scrollVars, uploadVars, chatInFlight>>
  /\ UNCHANGED <<convDelReqs, srvGone, lastConfirm, deletedInFlight, badgeVars>>

toggleTheme ==
  /\ pc = "ready"
  /\ theme' = Flip(theme)
  /\ htmlDark' = ApplyTheme(theme').html
  /\ lsTheme' = ApplyTheme(theme').ls
  /\ UNCHANGED <<pc, conversations, currentConversation, messages,
                 input, isSending, isTyping, agents, selectedAgent, uploadedFile,
                 curFromList, lsDeleted, srv, chatReq, loadReqs, delReqs,
                 convReqs, agentReqs, sendNo, nConv>>
  /\ UNCHANGED <<lastSend, deletedIds, reloadedTheme>>
  /\ UNCHANGED <<editVars, scrollVars, uploadVars, chatInFlight>>
  /\ UNCHANGED <<convDelReqs, srvGone, lastConfirm, deletedInFlight, badgeVars>>

\* the page is reloaded: React state is back at its initial values, pending
\* handlers are gone, localStorage and the backend keep their contents
Reload ==
  /\ pc = "ready"
  /\ pc' = "mounting"
  /\ conversations' = <<>>
  /\ currentConversation' = NoConv
  /\ messages' = <<>>
  /\ input' = <<>>
  /\ isSending' = FALSE
  /\ isTyping' = FALSE
  /\ agents' = FALLBACK_AGENTS
  /\ selectedAgent' = "general"
  /\ theme' = "light"
  /\ uploadedFile' = NoFile
  /\ curFromList' = FALSE
  /\ chatReq' = NoReq
  /\ loadReqs' = EmptyBag
  /\ delReqs' = EmptyBag
  /\ convReqs' = 0
  /\ agentReqs' = 0
  /\ UNCHANGED <<lsTheme, lsDeleted, htmlDark, srv, sendNo, nConv>>
  /\ lastSend' = NoSend
  /\ reloadedTheme' = theme
  /\ UNCHANGED deletedIds
  /\ editingId' = Null
  /\ editingText' = <<>>
  /\ manualScroll' = FALSE
  /\ viewDist' = 0
  /\ isUploading' = FALSE
  /\ putReqs' = EmptyBag
  /\ uploadReq' = NoReq
  /\ chatInFlight' = 0
  /\ nChosen' = 0
  /\ nCompleted' = 0
  /\ convDelReqs' = EmptyBag
  /\ UNCHANGED <<srvGone, lastConfirm, deletedInFlight, badgeVars>>

\* ------------------------------------------------------------------ agents
Keys(mapping) == [i \in 1..Len(mapping) |-> mapping[i].key]

\* Object.keys(x)[0]
FirstKey(mapping) == IF mapping = <<>> THEN "undefined" ELSE mapping[1].key

\* GET /api/agents -> {agents: mapping}; a body without the field is possible
ServerAgents == << [key |-> "general", name |-> "General"],
                   [key |-> "researcher", name |-> "Researcher"] >>
AgentBodies == { [agents |-> ServerAgents], [agents |-> <<>>], [status |-> "ok"] }

AgentsOr_Always(json) == FALLBACK_AGENTS
\* json.agents || FALLBACK_AGENTS; an empty object is truthy
AgentsOr(json) ==
  IF "agents" \in DOMAIN json THEN json.agents ELSE FALLBACK_AGENTS

loadAgentsOk(json) ==
  /\ pc = "ready"
  /\ agentReqs > 0
  /\ agentReqs' = agentReqs - 1
  /\ agents' = AgentsOr(json)
  /\ selectedAgent' = FirstKey(AgentsOr(json))
  /\ UNCHANGED <<pc, conversations, currentConversation, messages,
                 input, isSending, isTyping, theme, uploadedFile, curFromList,
                 lsTheme, lsDeleted, htmlDark, srv, chatReq, loadReqs, delReqs,
                 convReqs, sendNo, nConv>>
  /\ UNCHANGED <<lastSend, deletedIds, reloadedTheme>>
  /\ UNCHANGED <<editVars, scrollVars, uploadVars, chatInFlight>>
  /\ UNCHANGED <<convDelReqs, srvGone, lastConfirm, deletedInFlight, badgeVars>>

loadAgentsFail ==
  /\ pc = "ready"
  /\ agentReqs > 0
  /\ agentReqs' = agentReqs - 1
  /\ agents' = FALLBACK_AGENTS
  /\ selectedAgent' = FirstKey(FALLBACK_AGENTS)
  /\ UNCHANGED <<pc, conversations, currentConversation, messages,
                 input, isSending, isTyping, theme, uploadedFile, curFromList,
                 lsTheme, lsDeleted, htmlDark, srv, chatReq, loadReqs, delReqs,
                 convReqs, sendNo, nConv>>
  /\ UNCHANGED <<lastSend, deletedIds, reloadedTheme>>
  /\ UNCHANGED <<editVars, scrollVars, uploadVars, chatInFlight>>
  /\ UNCHANGED <<convDelReqs, srvGone, lastConfirm, deletedInFlight, badgeVars>>

\* AgentSelector: the <select> offers Object.keys(agents)
PickerOptions == IF agents = <<>> THEN <<>> ELSE Keys(agents)

setSelectedAgent(k) ==
  /\ pc = "ready"
  /\ Includes(PickerOptions, k)
  /\ k # selectedAgent
  /\ selectedAgent' = k
  /\ UNCHANGED <<pc, conversations, currentConversation, messages,
                 input, isSending, isTyping, agents, theme, uploadedFile,
                 curFromList, lsTheme, lsDeleted, htmlDark, srv, chatReq,
                 loadReqs, delReqs, convReqs, agentReqs, sendNo, nConv>>
  /\ UNCHANGED <<lastSend, deletedIds, reloadedTheme>>
  /\ UNCHANGED <<editVars, scrollVars, uploadVars, chatInFlight>>
  /\ UNCHANGED <<convDelReqs, srvGone, lastConfirm, deletedInFlight, badgeVars>>

\* ----------------------------------------------------------- conversations
\* GET /api/conversations: setConversations(json.conversations || [])
loadConversationsOk ==
  /\ pc = "ready"
  /\ convReqs > 0
  /\ convReqs' = convReqs - 1
  /\ conversations' = ServerConversations(srvGone)
  /\ curFromList' = FALSE
  /\ UNCHANGED <<pc, currentConversation, messages, input, isSending,
                 isTyping, agents, selectedAgent, theme, uploadedFile, lsTheme,
                 lsDeleted, htmlDark, srv, chatReq, loadReqs, delReqs,
                 agentReqs, sendNo, nConv>>
  /\ UNCHANGED <<lastSend, deletedIds, reloadedTheme>>
  /\ UNCHANGED <<editVars, scrollVars, uploadVars, chatInFlight>>
  /\ UNCHANGED <<convDelReqs, srvGone, lastConfirm, deletedInFlight, badgeVars>>

loadConversationsFail ==
  /\ pc = "ready"
  /\ convReqs > 0
  /\ convReqs' = convReqs - 1
  /\ conversations' = <<MockConversation>>
  /\ curFromList' = FALSE
  /\ UNCHANGED <<pc, currentConversation, messages, input, isSending,
                 isTyping, agents, selectedAgent, theme, uploadedFile, lsTheme,
                 lsDeleted, htmlDark, srv, chatReq, loadReqs, delReqs,
                 agentReqs, sendNo, nConv>>
  /\ UNCHANGED <<lastSend, deletedIds, reloadedTheme>>
  /\ UNCHANGED <<editVars, scrollVars, uploadVars, chatInFlight>>
  /\ UNCHANGED <<convDelReqs, srvGone, lastConfirm, deletedInFlight, badgeVars>>

\* LocalSidebar onSelect = setCurrentConversation(c); React ignores a set to
\* the identical object, otherwise the loadMessages effect runs and fetches
onSelect(i) ==
  /\ pc = "ready"
  /\ i \in 1..Len(conversations)
  /\ ~(curFromList /\ conversations[i].id = ConvIdOf(currentConversation))
  /\ LoadRoom
  /\ currentConversation' = conversations[i]
  /\ curFromList' = TRUE
  /\ loadReqs' = loadReqs (+) One(conversations[i].id)
  /\ UNCHANGED <<pc, conversations, messages, input, isSending,
                 isTyping, agents, selectedAgent, theme, uploadedFile, lsTheme,
                 lsDeleted, htmlDark, srv, chatReq, delReqs, convReqs,
                 agentReqs, sendNo, nConv>>
  /\ lastSend' = NoSend
  /\ UNCHANGED <<deletedIds, reloadedTheme>>
  /\ UNCHANGED <<editVars, scrollVars, uploadVars, chatInFlight>>
  /\ UNCHANGED <<convDelReqs, srvGone, lastConfirm, deletedInFlight, badgeVars>>

newConversation ==
  /\ pc = "ready"
  /\ nConv < MaxNewConvs
  /\ LoadRoom
  /\ LET newConv == [id |-> <<"conv-", nConv + 1>>, title |-> <<"New Conversation">>,
                     updated_at |-> 0]
     IN  /\ conversations' = <<newConv>> \o conversations
         /\ currentConversation' = newConv
         /\ loadReqs' = loadReqs (+) One(newConv.id)
  /\ curFromList' = TRUE
  /\ nConv' = nConv + 1
  /\ messages' = <<>>
  /\ input' = <<>>
  /\ uploadedFile' = NoFile
  /\ UNCHANGED <<pc, isSending, isTyping, agents, selectedAgent,
                 theme, lsTheme, lsDeleted, htmlDark, srv, chatReq, delReqs,
                 convReqs, agentReqs, sendNo>>
  /\ lastSend' = NoSend
  /\ UNCHANGED <<deletedIds, reloadedTheme>>
  /\ editingId' = Null
  /\ manualScroll' = FALSE
  /\ viewDist' = IF ScrollRefCurrent # Null THEN 0 ELSE viewDist
  /\ UNCHANGED <<editingText, putReqs, uploadVars, chatInFlight>>
  /\ UNCHANGED <<convDelReqs, srvGone, lastConfirm, deletedInFlight, badgeVars>>

\* ---------------------------------------------------------------- messages
\* GET /api/conversations/{id}/messages answered for the load started with
\* conversation id c: the filter reads localStorage when the answer arrives
loadMessagesOk(c) ==
  /\ pc = "ready"
  /\ BagIn(c, loadReqs)
  /\ c # Undefined
  /\ loadReqs' = loadReqs (-) One(c)
  /\ LET NotDeleted(msg) == ~isMessageLocallyDeleted(lsDeleted, c, msg.id)
     IN  messages' = SelectSeq(srv[c], NotDeleted)
  /\ UNCHANGED <<pc, conversations, currentConversation, input,
                 isSending, isTyping, agents, selectedAgent, theme,
                 uploadedFile, curFromList, lsTheme, lsDeleted, htmlDark, srv,
                 chatReq, delReqs, convReqs, agentReqs, sendNo, nConv>>
  /\ UNCHANGED <<lastSend, deletedIds, reloadedTheme>>
  /\ UNCHANGED <<editVars, scrollVars, uploadVars, chatInFlight>>
  /\ UNCHANGED <<convDelReqs, srvGone, lastConfirm, deletedInFlight, badgeVars>>

HelloMessage(c) == Msg(<<"msg-", 0>>, "assistant", HelloText, c)

loadMessagesFail(c) ==
  /\ pc = "ready"
  /\ BagIn(c, loadReqs)
  /\ loadReqs' = loadReqs (-) One(c)
  /\ messages' = << HelloMessage(c) >>
  /\ UNCHANGED <<pc, conversations, currentConversation, input,
                 isSending, isTyping, agents, selectedAgent, theme,
                 uploadedFile, curFromList, lsTheme, lsDeleted, htmlDark, srv,
                 chatReq, delReqs, convReqs, agentReqs, sendNo, nConv>>
  /\ UNCHANGED <<lastSend, deletedIds, reloadedTheme>>
  /\ UNCHANGED <<editVars, scrollVars, uploadVars, chatInFlight>>
  /\ UNCHANGED <<convDelReqs, srvGone, lastConfirm, deletedInFlight, badgeVars>>

setInput(v) ==
  /\ pc = "ready"
  /\ ~(isSending \/ editingId # Null)
  /\ v # input
  /\ input' = v
  /\ UNCHANGED <<pc, conversations, currentConversation, messages,
                 isSending, isTyping, agents, selectedAgent, theme,
                 uploadedFile, curFromList, lsTheme, lsDeleted, htmlDark, srv,
                 chatReq, loadReqs, delReqs, convReqs, agentReqs, sendNo, nConv>>
  /\ UNCHANGED <<lastSend, deletedIds, reloadedTheme>>
  /\ UNCHANGED <<editVars, scrollVars, uploadVars, chatInFlight>>
  /\ UNCHANGED <<convDelReqs, srvGone, lastConfirm, deletedInFlight, badgeVars>>

\* if (isSending || (!input.trim() && !uploadedFile)) return;
SendBlocked_NoTrim(sending, text, file) ==
  sending \/ (text = <<>> /\ file = NoFile)
SendBlocked_NotBusy(sending, text, file) ==
  Trim(text) = <<>> /\ file = NoFile
SendBlocked(sending, text, file) ==
  sending \/ (Trim(text) = <<>> /\ file = NoFile)

\* sendMessage up to its await: guard, optimistic append, new conversation
\* when none is current, POST /api/chat
sendMessage ==
  /\ pc = "ready"
  /\ ~SendBlocked(isSending, input, uploadedFile)
  /\ sendNo - chatInFlight < MaxSends      \* sends already answered
  /\ LET userMessage == Trim(input)
         tempMsgId == <<"msg-temp-", sendNo + 1>>
         startNew == ConvIdOf(currentConversation) = Undefined
         newConv == [id |-> <<"conv-", nConv + 1>>, title |-> TitleOf(userMessage),
                     updated_at |-> 0]
         convId == IF startNew THEN newConv.id ELSE currentConversation.id
         newMessage == Msg(tempMsgId, "user", userMessage, convId)
         payload == [conversation_id |-> convId, agent_id |-> selectedAgent,
                     message |-> userMessage, file_data |-> uploadedFile.data,
                     file_name |-> uploadedFile.name]
     IN  /\ startNew => (nConv < MaxNewConvs /\ LoadRoom)
         /\ messages' = Append(messages, newMessage)
         /\ conversations' = IF startNew THEN <<newConv>> \o conversations
                             ELSE conversations
         /\ currentConversation' = IF startNew THEN newConv ELSE currentConversation
         /\ curFromList' = IF startNew THEN TRUE ELSE curFromList
         /\ nConv' = IF startNew THEN nConv + 1 ELSE nConv
         /\ loadReqs' = IF startNew THEN loadReqs (+) One(newConv.id) ELSE loadReqs
         /\ chatReq' = [kind |-> "chat", payload |-> payload, convId |-> convId,
                        tempMsgId |-> tempMsgId, n |-> sendNo + 1,
                        cur |-> currentConversation]
  /\ sendNo' = sendNo + 1
  /\ isSending' = TRUE
  /\ isTyping' = TRUE
  /\ input' = <<>>
  /\ uploadedFile' = NoFile
  /\ UNCHANGED <<pc, agents, selectedAgent, theme, lsTheme, lsDeleted,
                 htmlDark, srv, delReqs, convReqs, agentReqs>>
  /\ lastSend' = [status |-> "pending", n |-> sendNo + 1, message |-> Trim(input)]
  /\ UNCHANGED <<deletedIds, reloadedTheme>>
  /\ chatInFlight' = chatInFlight + 1
  /\ UNCHANGED <<editVars, scrollVars, uploadVars>>
  /\ UNCHANGED <<convDelReqs, srvGone, lastConfirm, deletedInFlight, badgeVars>>

\* {...prev, title: newTitle, updated_at: now}
SpreadTitle(prev, newTitle, now) ==
  IF prev = NoConv THEN [id |-> Undefined, title |-> newTitle, updated_at |-> now]
  ELSE [prev EXCEPT !.title = newTitle, !.updated_at = now]

Finally_TypingLeft == [isSending |-> FALSE, isTyping |-> TRUE]
\* finally { setIsSending(false); setIsTyping(false); }
Finally == [isSending |-> FALSE, isTyping |-> FALSE]

\* steps 5 and 6 of sendMessage on a 2xx answer with a JSON body, then finally
\* setMessages(prev => [...prev, assistantMessage])
AppendReply_Front(prev, assistantMessage) == <<assistantMessage>> \o prev
AppendReply(prev, assistantMessage) == Append(prev, assistantMessage)

sendMessageOk(withId) ==
  /\ pc = "ready"
  /\ chatReq # NoReq
  /\ LET convId == chatReq.convId
         tempMsgId == chatReq.tempMsgId
         responseData == ChatReply(convId, chatReq.n, withId)
         realId == OrElse(Field(responseData, "user_msg_id"), tempMsgId)
         replaced == [i \in 1..Len(messages) |->
                        IF messages[i].id = tempMsgId
                          THEN [messages[i] EXCEPT !.id = realId]
                          ELSE messages[i]]
         assistantMessage ==
           Msg(OrElse(Field(responseData, "assistant_msg_id"), <<"msg-", chatReq.n>>),
               "assistant",
               OrElse(Field(responseData, "response"), SorryText),
               convId)
         updateTitle == convId = ConvIdOf(chatReq.cur)
         newTitle == OrElse(Field(responseData, "conversation_title"), chatReq.cur.title)
     IN  /\ srv' = ServerStoreChat(srv, convId, chatReq.n, chatReq.payload.message)
         /\ messages' = AppendReply(replaced, assistantMessage)
         /\ IF updateTitle
              THEN /\ currentConversation' = SpreadTitle(currentConversation, newTitle, chatReq.n)
                   /\ conversations' =
                        [i \in 1..Len(conversations) |->
                           IF conversations[i].id = convId
                             THEN SpreadTitle(conversations[i], newTitle, chatReq.n)
                             ELSE conversations[i]]
                   /\ curFromList' = FALSE
                   /\ loadReqs' = loadReqs (+) One(ConvIdOf(currentConversation'))
              ELSE UNCHANGED <<currentConversation, conversations, curFromList, loadReqs>>
  /\ chatReq' = NoReq
  /\ isSending' = Finally.isSending
  /\ isTyping' = Finally.isTyping
  /\ UNCHANGED <<pc, input, agents, selectedAgent, theme,
                 uploadedFile, lsTheme, lsDeleted, htmlDark, delReqs, convReqs,
                 agentReqs, sendNo, nConv>>
  /\ lastSend' = IF lastSend.n = chatReq.n THEN [lastSend EXCEPT !.status = "ok"] ELSE lastSend
  /\ UNCHANGED <<deletedIds, reloadedTheme>>
  /\ chatInFlight' = chatInFlight - 1
  /\ UNCHANGED <<editVars, scrollVars, uploadVars>>
  /\ UNCHANGED <<convDelReqs, srvGone, lastConfirm, deletedInFlight, badgeVars>>

\* setMessages((prev) => [...prev, errorMsg])
AppendError_Replace(prev, errorMsg) == << errorMsg >>
AppendError(prev, errorMsg) == Append(prev, errorMsg)

ErrorKinds == {"network", "status", "parse"}
ErrorText(kind) == <<"**Error:** ", kind, ". Please try again.">>

AfterCatch_Retry(req) == req
\* the catch block makes no fetch call: the request it handled is settled and
\* nothing takes its place
AfterCatch(req) == NoReq

\* the catch block of sendMessage, then finally
sendMessageFail(kind) ==
  /\ pc = "ready"
  /\ chatReq # NoReq
  /\ LET errorMsg == Msg(<<"msg-error-", chatReq.n>>, "assistant",
                         ErrorText(kind), chatReq.convId)
     IN  messages' = AppendError(messages, errorMsg)
  /\ srv' = IF kind = "parse"
              THEN ServerStoreChat(srv, chatReq.convId, chatReq.n, chatReq.payload.message)
              ELSE srv
  /\ chatReq' = AfterCatch(chatReq)
  /\ isSending' = Finally.isSending
  /\ isTyping' = Finally.isTyping
  /\ UNCHANGED <<pc, conversations, currentConversation, input,
                 agents, selectedAgent, theme, uploadedFile, curFromList,
                 lsTheme, lsDeleted, htmlDark, loadReqs, delReqs, convReqs,
                 agentReqs, sendNo, nConv>>
  /\ lastSend' = IF lastSend.n = chatReq.n THEN [lastSend EXCEPT !.status = "failed"] ELSE lastSend
  /\ UNCHANGED <<deletedIds, reloadedTheme>>
  /\ chatInFlight' = IF AfterCatch(chatReq) = NoReq THEN chatInFlight - 1 ELSE chatInFlight
  /\ UNCHANGED <<editVars, scrollVars, uploadVars>>
  /\ UNCHANGED <<convDelReqs, srvGone, lastConfirm, deletedInFlight, badgeVars>>

\* ------------------------------------------------------ deleteConversation
ConfirmAnswers == {"accepted", "declined"}

\* the request of a deleteConversation call: the conversation it was given
\* and the currentConversation?.id of the render it was called in
ConvDelReq(conversation, current) ==
  [id |-> conversation.id, cur |-> ConvIdOf(current)]

\* prev.filter((c) => c.id !== conversation.id)
RemoveConversation_All(prev, id) == <<>>

RemoveConversation(prev, id) ==
  LET Other(c) == c.id # id
  IN  SelectSeq(prev, Other)

\* deleteConversation up to its await (the sidebar's Delete button); confirm()
\* is modal, the handler returns when the user declines
deleteConversation(i, answer) ==
  /\ pc = "ready"
  /\ i \in 1..Len(conversations)
  /\ lastConfirm' = answer
  /\ IF answer = "accepted"
       THEN /\ BagCardinality(convDelReqs) < MaxConvDeletes
            /\ convDelReqs' =
                 convDelReqs (+) One(ConvDelReq(conversations[i], currentConversation))
       ELSE UNCHANGED convDelReqs
  /\ UNCHANGED <<pc, conversations, currentConversation, messages, input,
                 isSending, isTyping, agents, selectedAgent, theme,
                 uploadedFile, curFromList, lsTheme, lsDeleted, htmlDark, srv,
                 chatReq, loadReqs, delReqs, convReqs, agentReqs, sendNo, nConv>>
  /\ UNCHANGED <<editVars, scrollVars, uploadVars, chatInFlight>>
  /\ UNCHANGED <<srvGone, lastSend, deletedIds, deletedInFlight, reloadedTheme,
                 badgeVars>>

\* what both the try block (after res.ok) and the catch block do: remove the
\* conversation from the list, and leave the conversation when it was the
\* current one of the render the handler was called in; the effect on
\* currentConversation then empties the list again and fetches nothing
deleteConversationSettled(r) ==
  /\ pc = "ready"
  /\ BagIn(r, convDelReqs)
  /\ convDelReqs' = convDelReqs (-) One(r)
  /\ conversations' = RemoveConversation(conversations, r.id)
  /\ IF r.cur = r.id
       THEN /\ currentConversation' = NoConv
            /\ messages' = <<>>
            /\ curFromList' = FALSE
       ELSE UNCHANGED <<currentConversation, messages, curFromList>>
  /\ lastSend' = NoSend
  /\ UNCHANGED <<pc, input, isSending, isTyping, agents, selectedAgent, theme,
                 uploadedFile, lsTheme, lsDeleted, htmlDark,
                 chatReq, loadReqs, delReqs, convReqs, agentReqs, sendNo, nConv>>
  /\ UNCHANGED <<editVars, scrollVars, uploadVars, chatInFlight>>
  /\ UNCHANGED <<lastConfirm, deletedIds, deletedInFlight, reloadedTheme, badgeVars>>

\* DELETE /conversations/{id} answers 2xx
deleteConversationOk(r) ==
  /\ deleteConversationSettled(r)
  /\ srv' = ServerDeleteConversation(srv, r.id)
  /\ srvGone' = srvGone \cup {r.id}

\* DELETE /conversations/{id} answers another status, or the fetch fails
deleteConversationFail(r) ==
  /\ deleteConversationSettled(r)
  /\ UNCHANGED <<srv, srvGone>>

isOwn_Any(msg) == TRUE
\* <Message isOwn={msg.role === "user"}>: MessageBubble shows Edit and Delete
\* when isOwn, Copy, Like, Dislike and Reply otherwise
isOwn(msg) == msg.role = "user"

\* deleteMessage up to its await; the toolbar offers Delete on own messages
deleteMessage(i) ==
  /\ pc = "ready"
  /\ i \in 1..Len(messages)
  /\ isOwn(messages[i])
  /\ currentConversation # NoConv
  /\ BagCardinality(delReqs) < MaxDeletes
  /\ LET msg == messages[i]
         Keep(m) == m.id # msg.id
     IN  /\ messages' = SelectSeq(messages, Keep)
         /\ lsDeleted' = markMessageDeletedLocally(lsDeleted, currentConversation.id, msg.id)
         /\ delReqs' = delReqs (+) One([conv |-> currentConversation.id, id |-> msg.id])
  /\ UNCHANGED <<pc, conversations, currentConversation, input,
                 isSending, isTyping, agents, selectedAgent, theme,
                 uploadedFile, curFromList, lsTheme, htmlDark, srv, chatReq,
                 loadReqs, convReqs, agentReqs, sendNo, nConv>>
  /\ lastSend' = NoSend
  /\ deletedIds' = deletedIds \cup {messages[i].id}
  /\ UNCHANGED reloadedTheme
  /\ UNCHANGED <<editVars, scrollVars, uploadVars, chatInFlight>>
  /\ deletedInFlight' =
       IF chatReq # NoReq /\ chatReq.tempMsgId = messages[i].id
         THEN deletedInFlight \cup {messages[i].id}
         ELSE deletedInFlight
  /\ UNCHANGED <<convDelReqs, srvGone, lastConfirm, badgeVars>>

\* DELETE /api/messages/{id} answered 2xx
deleteMessageOk(d) ==
  /\ pc = "ready"
  /\ BagIn(d, delReqs)
  /\ ServerHasMessage(srv, d.id)
  /\ delReqs' = delReqs (-) One(d)
  /\ srv' = ServerDeleteMessage(srv, d.id)
  /\ lsDeleted' = removeLocalDeletedMark(lsDeleted, d.conv, d.id)
  /\ UNCHANGED <<pc, conversations, currentConversation, messages,
                 input, isSending, isTyping, agents, selectedAgent, theme,
                 uploadedFile, curFromList, lsTheme, htmlDark, chatReq,
                 loadReqs, convReqs, agentReqs, sendNo, nConv>>
  /\ UNCHANGED <<lastSend, deletedIds, reloadedTheme>>
  /\ UNCHANGED <<editVars, scrollVars, uploadVars, chatInFlight>>
  /\ UNCHANGED <<convDelReqs, srvGone, lastConfirm, deletedInFlight, badgeVars>>

\* DELETE /api/messages/{id} answered non-2xx or not at all
deleteMessageFail(d) ==
  /\ pc = "ready"
  /\ BagIn(d, delReqs)
  /\ delReqs' = delReqs (-) One(d)
  /\ UNCHANGED <<pc, conversations, currentConversation, messages,
                 input, isSending, isTyping, agents, selectedAgent, theme,
                 uploadedFile, curFromList, lsTheme, lsDeleted, htmlDark, srv,
                 chatReq, loadReqs, convReqs, agentReqs, sendNo, nConv>>
  /\ UNCHANGED <<lastSend, deletedIds, reloadedTheme>>
  /\ UNCHANGED <<editVars, scrollVars, uploadVars, chatInFlight>>
  /\ UNCHANGED <<convDelReqs, srvGone, lastConfirm, deletedInFlight, badgeVars>>

\* ------------------------------------------------------------------- edits
\* startEdit(msg), from the Edit button of an own message
startEdit(i) ==
  /\ pc = "ready"
  /\ i \in 1..Len(messages)
  /\ isOwn(messages[i])
  /\ ~(editingId = messages[i].id /\ editingText = messages[i].content)
  /\ editingId' = messages[i].id
  /\ editingText' = messages[i].content
  /\ UNCHANGED <<pc, conversations, currentConversation, messages, input,
                 isSending, isTyping, agents, selectedAgent, theme,
                 uploadedFile, curFromList, lsTheme, lsDeleted, htmlDark, srv,
                 chatReq, loadReqs, delReqs, convReqs, agentReqs, sendNo, nConv>>
  /\ UNCHANGED <<putReqs, scrollVars, uploadVars, chatInFlight>>
  /\ UNCHANGED <<lastSend, deletedIds, reloadedTheme>>
  /\ UNCHANGED <<convDelReqs, srvGone, lastConfirm, deletedInFlight, badgeVars>>

EditTexts == { <<"e">>, <<SP>> }

\* the textarea of the edit panel, rendered while editingId is set
setEditingText(v) ==
  /\ pc = "ready"
  /\ editingId # Null
  /\ v # editingText
  /\ editingText' = v
  /\ UNCHANGED <<pc, conversations, currentConversation, messages, input,
                 isSending, isTyping, agents, selectedAgent, theme,
                 uploadedFile, curFromList, lsTheme, lsDeleted, htmlDark, srv,
                 chatReq, loadReqs, delReqs, convReqs, agentReqs, sendNo, nConv>>
  /\ UNCHANGED <<editingId, putReqs, scrollVars, uploadVars, chatInFlight>>
  /\ UNCHANGED <<lastSend, deletedIds, reloadedTheme>>
  /\ UNCHANGED <<convDelReqs, srvGone, lastConfirm, deletedInFlight, badgeVars>>

cancelEdit ==
  /\ pc = "ready"
  /\ editingId # Null
  /\ editingId' = Null
  /\ editingText' = <<>>
  /\ UNCHANGED <<pc, conversations, currentConversation, messages, input,
                 isSending, isTyping, agents, selectedAgent, theme,
                 uploadedFile, curFromList, lsTheme, lsDeleted, htmlDark, srv,
                 chatReq, loadReqs, delReqs, convReqs, agentReqs, sendNo, nConv>>
  /\ UNCHANGED <<putReqs, scrollVars, uploadVars, chatInFlight>>
  /\ UNCHANGED <<lastSend, deletedIds, reloadedTheme>>
  /\ UNCHANGED <<convDelReqs, srvGone, lastConfirm, deletedInFlight, badgeVars>>

EditedList_Unchanged(prev, id, newContent) == prev
\* prev.map((msg) => (msg.id === id ? {...msg, content: newContent} : msg))
EditedList_AllRows(prev, id, newContent) ==
  [i \in 1..Len(prev) |->
     [prev[i] EXCEPT !.content = newContent, !.timestamp = EditedAt]]

EditedList(prev, id, newContent) ==
  [i \in 1..Len(prev) |->
     IF prev[i].id = id
       THEN [prev[i] EXCEPT !.content = newContent, !.timestamp = EditedAt]
       ELSE prev[i]]

\* Save Edit, enabled while the edit text is not blank:
\* saveEditedMessage(editingId, editingText) up to its await
saveEditedMessage ==
  /\ pc = "ready"
  /\ editingId # Null
  /\ Trim(editingText) # <<>>
  /\ currentConversation # NoConv
  /\ BagCardinality(putReqs) < MaxEdits
  /\ messages' = EditedList(messages, editingId, editingText)
  /\ editingId' = Null
  /\ editingText' = <<>>
  /\ putReqs' = putReqs (+) One([id |-> editingId, content |-> editingText])
  /\ UNCHANGED <<pc, conversations, currentConversation, input,
                 isSending, isTyping, agents, selectedAgent, theme,
                 uploadedFile, curFromList, lsTheme, lsDeleted, htmlDark, srv,
                 chatReq, loadReqs, delReqs, convReqs, agentReqs, sendNo, nConv>>
  /\ UNCHANGED <<scrollVars, uploadVars, chatInFlight>>
  /\ lastSend' = NoSend
  /\ UNCHANGED <<deletedIds, reloadedTheme>>
  /\ UNCHANGED <<convDelReqs, srvGone, lastConfirm, deletedInFlight, badgeVars>>

\* PUT /api/messages/{id} {content}
ServerEditMessage(store, id, content) ==
  [c \in DOMAIN store |-> EditedList(store[c], id, content)]

\* PUT answered 2xx: nothing more is done on the client
saveEditedMessageOk(e) ==
  /\ pc = "ready"
  /\ BagIn(e, putReqs)
  /\ ServerHasMessage(srv, e.id)
  /\ putReqs' = putReqs (-) One(e)
  /\ srv' = ServerEditMessage(srv, e.id, e.content)
  /\ UNCHANGED <<pc, conversations, currentConversation, messages, input,
                 isSending, isTyping, agents, selectedAgent, theme,
                 uploadedFile, curFromList, lsTheme, lsDeleted, htmlDark,
                 chatReq, loadReqs, delReqs, convReqs, agentReqs, sendNo, nConv>>
  /\ UNCHANGED <<editingId, editingText, scrollVars, uploadVars, chatInFlight>>
  /\ UNCHANGED <<lastSend, deletedIds, reloadedTheme>>
  /\ UNCHANGED <<convDelReqs, srvGone, lastConfirm, deletedInFlight, badgeVars>>

\* PUT answered non-2xx or not at all: an alert, no rollback, no second PUT
saveEditedMessageFail(e) ==
  /\ pc = "ready"
  /\ BagIn(e, putReqs)
  /\ putReqs' = putReqs (-) One(e)
  /\ UNCHANGED <<pc, conversations, currentConversation, messages, input,
                 isSending, isTyping, agents, selectedAgent, theme,
                 uploadedFile, curFromList, lsTheme, lsDeleted, htmlDark, srv,
                 chatReq, loadReqs, delReqs, convReqs, agentReqs, sendNo, nConv>>
  /\ UNCHANGED <<editingId, editingText, scrollVars, uploadVars, chatInFlight>>
  /\ UNCHANGED <<lastSend, deletedIds, reloadedTheme>>
  /\ UNCHANGED <<convDelReqs, srvGone, lastConfirm, deletedInFlight, badgeVars>>

\* ------------------------------------------------------------- file upload
Files == {"f1", "f2"}

\* FileUploaderInline.handleFile up to its await; the file input is disabled
\* while isUploading
handleFile(f) ==
  /\ pc = "ready"
  /\ ~isUploading
  /\ nChosen < MaxUploads
  /\ isUploading' = TRUE
  /\ uploadReq' = [kind |-> "upload", name |-> f, localUrl |-> <<"blob:", f>>]
  /\ nChosen' = nChosen + 1
  /\ UNCHANGED <<pc, conversations, currentConversation, messages, input,
                 isSending, isTyping, agents, selectedAgent, theme,
                 uploadedFile, curFromList, lsTheme, lsDeleted, htmlDark, srv,
                 chatReq, loadReqs, delReqs, convReqs, agentReqs, sendNo, nConv>>
  /\ UNCHANGED <<editVars, scrollVars, chatInFlight, nCompleted>>
  /\ UNCHANGED <<lastSend, deletedIds, reloadedTheme>>
  /\ UNCHANGED <<convDelReqs, srvGone, lastConfirm, deletedInFlight, badgeVars>>

\* body of a 2xx answer of POST /api/upload
UploadJson(name) == [file_id |-> <<"file-", name>>]

\* "ok"; "status": non-2xx; "network": fetch rejects; "parse": res.json() throws
UploadOutcomes == {"ok", "status", "network", "parse"}

UploadCalls_NoReturn(outcome, req) ==
  IF outcome = "status"
    THEN << [localUrl |-> req.localUrl, name |-> req.name, data |-> Null,
             error |-> <<"Upload failed: ", outcome>>],
            [localUrl |-> req.localUrl, name |-> req.name, data |-> UploadJson(req.name)] >>
    ELSE << [localUrl |-> req.localUrl, name |-> req.name, data |-> Null,
             error |-> <<outcome>>] >>
\* the onUploadComplete calls handleFile makes after its await, in order
UploadCalls(outcome, req) ==
  IF outcome = "ok"
    THEN << [localUrl |-> req.localUrl, name |-> req.name, data |-> UploadJson(req.name)] >>
  ELSE IF outcome = "status"
    THEN << [localUrl |-> req.localUrl, name |-> req.name, data |-> Null,
             error |-> <<"Upload failed: ", outcome>>] >>
    ELSE << [localUrl |-> req.localUrl, name |-> req.name, data |-> Null,
             error |-> <<outcome>>] >>

\* the rest of handleFile: onUploadComplete = setUploadedFile, then finally
handleFileDone(outcome) ==
  /\ pc = "ready"
  /\ uploadReq # NoReq
  /\ LET calls == UploadCalls(outcome, uploadReq)
     IN  /\ uploadedFile' = calls[Len(calls)]
         /\ nCompleted' = nCompleted + Len(calls)
  /\ isUploading' = FALSE
  /\ uploadReq' = NoReq
  /\ UNCHANGED <<pc, conversations, currentConversation, messages, input,
                 isSending, isTyping, agents, selectedAgent, theme,
                 curFromList, lsTheme, lsDeleted, htmlDark, srv,
                 chatReq, loadReqs, delReqs, convReqs, agentReqs, sendNo, nConv>>
  /\ UNCHANGED <<editVars, scrollVars, chatInFlight, nChosen>>
  /\ UNCHANGED <<lastSend, deletedIds, reloadedTheme>>
  /\ UNCHANGED <<convDelReqs, srvGone, lastConfirm, deletedInFlight, badgeVars>>

\* the Remove file button next to the file name
removeFile ==
  /\ pc = "ready"
  /\ uploadedFile # NoFile
  /\ uploadedFile' = NoFile
  /\ UNCHANGED <<pc, conversations, currentConversation, messages, input,
                 isSending, isTyping, agents, selectedAgent, theme,
                 curFromList, lsTheme, lsDeleted, htmlDark, srv,
                 chatReq, loadReqs, delReqs, convReqs, agentReqs, sendNo, nConv>>
  /\ UNCHANGED <<editVars, scrollVars, uploadVars, chatInFlight>>
  /\ UNCHANGED <<lastSend, deletedIds, reloadedTheme>>
  /\ UNCHANGED <<convDelReqs, srvGone, lastConfirm, deletedInFlight, badgeVars>>

\* ---------------------------------------------------------- scroll effect
\* the effect on [messages, isSending, isTyping, manualScroll]: does it call
\* element.scrollTo, element being scrollRef.current
EffectScrolls(element, manual, sending, typing) ==
  element # Null /\ (~manual \/ sending \/ typing)

ScrollDists == {0, ScrollTolerance, ScrollTolerance + 1}

\* the user scrolls the message list to d pixels above its bottom.  handleScroll
\* is the listener the effect adds to scrollRef.current, when there is one;
\* a change of manualScroll runs the effect again.  With scrollRef.current
\* null the effect returns at its first line after every render, so no other
\* action moves the view
userScroll(d) ==
  /\ pc = "ready"
  /\ d # viewDist
  /\ LET isAtBottom == d <= ScrollTolerance
         manual == IF ScrollRefCurrent # Null THEN ~isAtBottom ELSE manualScroll
     IN  /\ manualScroll' = manual
         /\ viewDist' = IF manual # manualScroll
                           /\ EffectScrolls(ScrollRefCurrent, manual, isSending, isTyping)
                          THEN 0 ELSE d
  /\ UNCHANGED <<pc, conversations, currentConversation, messages, input,
                 isSending, isTyping, agents, selectedAgent, theme,
                 uploadedFile, curFromList, lsTheme, lsDeleted, htmlDark, srv,
                 chatReq, loadReqs, delReqs, convReqs, agentReqs, sendNo, nConv>>
  /\ UNCHANGED <<editVars, uploadVars, chatInFlight>>
  /\ UNCHANGED <<lastSend, deletedIds, reloadedTheme>>
  /\ UNCHANGED <<convDelReqs, srvGone, lastConfirm, deletedInFlight, badgeVars>>

AgentKeyUniverse == {"general", "translator", "creative", "coder", "researcher"}

NextShell ==
  \/ \E dev \in BOOLEAN : Mount(dev)
  \/ toggleTheme
  \/ Reload
  \/ \E json \in AgentBodies : loadAgentsOk(json)
  \/ loadAgentsFail
  \/ \E k \in AgentKeyUniverse : setSelectedAgent(k)
  \/ loadConversationsOk
  \/ loadConversationsFail

SpecShell == Init /\ [][NextShell]_vars

AllMsgIds ==
  {<<"srv-u-", 0>>, <<"srv-a-", 0>>, <<"srv-u-", 9>>, <<"msg-", 0>>}
    \cup {<<k, n>> : k \in {"msg-temp-", "srv-u-", "srv-a-", "msg-", "msg-error-"},
                     n \in 1..(MaxSends + 1)}

DelReqUniverse == [conv : AllConvIds, id : AllMsgIds]

\* longest sidebar and longest message list the bounds allow
MaxConvs == Len(SeedConversations) + MaxNewConvs
MaxList == 2 + 2 * MaxSends

\* sending: no message is deleted
NextSend ==
  \/ \E dev \in BOOLEAN : Mount(dev)
  \/ loadConversationsOk
  \/ loadConversationsFail
  \/ \E i \in 1..MaxConvs : onSelect(i)
  \/ newConversation
  \/ \E c \in AllConvIds : loadMessagesOk(c)
  \/ \E c \in AllConvIds : loadMessagesFail(c)
  \/ \E v \in Inputs : setInput(v)
  \/ sendMessage
  \/ \E withId \in BOOLEAN : sendMessageOk(withId)
  \/ \E kind \in ErrorKinds : sendMessageFail(kind)

SpecSend == Init /\ [][NextSend]_vars

\* deleting: no message is sent
NextDelete ==
  \/ \E dev \in BOOLEAN : Mount(dev)
  \/ loadConversationsOk
  \/ loadConversationsFail
  \/ \E i \in 1..MaxConvs : onSelect(i)
  \/ \E c \in AllConvIds : loadMessagesOk(c)
  \/ \E c \in AllConvIds : loadMessagesFail(c)
  \/ \E i \in 1..MaxList : deleteMessage(i)
  \/ \E d \in DelReqUniverse : deleteMessageOk(d)
  \/ \E d \in DelReqUniverse : deleteMessageFail(d)

SpecDelete == Init /\ [][NextDelete]_vars

\* attaching files and sending
NextUpload ==
  \/ \E dev \in BOOLEAN : Mount(dev)
  \/ \E c \in AllConvIds : loadMessagesOk(c)
  \/ \E c \in AllConvIds : loadMessagesFail(c)
  \/ \E v \in Inputs : setInput(v)
  \/ \E f \in Files : handleFile(f)
  \/ \E outcome \in UploadOutcomes : handleFileDone(outcome)
  \/ removeFile
  \/ sendMessage
  \/ \E withId \in BOOLEAN : sendMessageOk(withId)
  \/ \E kind \in ErrorKinds : sendMessageFail(kind)

SpecUpload == Init /\ [][NextUpload]_vars

\* the fetch of POST /api/chat settles: it resolves (2xx, then res.json()
\* succeeds or throws; non-2xx) or rejects
ChatSettles ==
  \/ \E withId \in BOOLEAN : sendMessageOk(withId)
  \/ \E kind \in ErrorKinds : sendMessageFail(kind)

\* every chat request is answered or fails in the end
SpecUploadFair == SpecUpload /\ WF_vars(ChatSettles)

EditContents == { <<"e">>, <<"q">>, <<"p">>, <<"a">> }
EditReqUniverse == [id : AllMsgIds, content : EditContents]

\* sending, then editing and deleting what was sent, for as long as the
\* message reload the first send starts is unanswered: the list holds
\* temporary ids, which the backend does not know, so PUT and DELETE fail
NextEdit ==
  \/ \E dev \in BOOLEAN : Mount(dev)
  \/ \E v \in Inputs : setInput(v)
  \/ sendMessage
  \/ \E withId \in BOOLEAN : sendMessageOk(withId)
  \/ \E kind \in ErrorKinds : sendMessageFail(kind)
  \/ \E i \in 1..MaxList : deleteMessage(i)
  \/ \E d \in DelReqUniverse : deleteMessageFail(d)
  \/ \E i \in 1..MaxList : startEdit(i)
  \/ \E v \in EditTexts : setEditingText(v)
  \/ cancelEdit
  \/ saveEditedMessage
  \/ \E e \in EditReqUniverse : saveEditedMessageFail(e)

SpecEdit == Init /\ [][NextEdit]_vars

\* sending and scrolling
NextScroll ==
  \/ \E dev \in BOOLEAN : Mount(dev)
  \/ loadConversationsOk
  \/ loadConversationsFail
  \/ \E i \in 1..MaxConvs : onSelect(i)
  \/ newConversation
  \/ \E c \in AllConvIds : loadMessagesOk(c)
  \/ \E c \in AllConvIds : loadMessagesFail(c)
  \/ \E v \in Inputs : setInput(v)
  \/ sendMessage
  \/ \E withId \in BOOLEAN : sendMessageOk(withId)
  \/ \E kind \in ErrorKinds : sendMessageFail(kind)
  \/ \E d \in ScrollDists : userScroll(d)

SpecScroll == Init /\ [][NextScroll]_vars

\* sending and deleting what was sent, with the loads of the conversation
\* the send started
NextSendDelete ==
  \/ \E dev \in BOOLEAN : Mount(dev)
  \/ \E c \in AllConvIds : loadMessagesOk(c)
  \/ \E v \in Inputs : setInput(v)
  \/ sendMessage
  \/ \E withId \in BOOLEAN : sendMessageOk(withId)
  \/ \E kind \in ErrorKinds : sendMessageFail(kind)
  \/ \E i \in 1..MaxList : deleteMessage(i)
  \/ \E d \in DelReqUniverse : deleteMessageOk(d)
  \/ \E d \in DelReqUniverse : deleteMessageFail(d)

SpecSendDelete == Init /\ [][NextSendDelete]_vars

\* ------------------------------------- ChatInterface of components/ui/badge.jsx
\* The second ChatInterface (badge.jsx 811-1536): its conversations, its
\* messages with reaction counters, the three-step deleteMessage and
\* reactMessage.  Its theme, agents, input box, editing and scrolling are left
\* out: none of them is read by the handlers below.

BadgeInputs == { <<"a">> }
BadgeErrorText == <<"Sorry - I couldn't send the message">>
Reactions == {"like", "dislike"}

BMsg(id, role, content, likes, dislikes, sending) ==
  [id |-> id, role |-> role, content |-> content, likes |-> likes,
   dislikes |-> dislikes, sending |-> sending]

\* POST /messages/{id}/reaction, as stored
ReactionOf(id, reaction) == [id |-> id, reaction |-> reaction]

\* a stored message as GET /conversations/{id} serves it, with its counters
ServedMessage(m, reactions) ==
  BMsg(m.id, m.role, m.content,
       CopiesIn(ReactionOf(m.id, "like"), reactions),
       CopiesIn(ReactionOf(m.id, "dislike"), reactions), FALSE)

\* the conversation POST /chat creates for a message sent without an id
NewServerConvId(n) == <<"srv-new-", n>>
NewServerConv(n) == [id |-> NewServerConvId(n), title |-> ServerTitle, updated_at |-> 0]

RECURSIVE CreatedConversations(_, _)
CreatedConversations(store, n) ==
  IF n = 0 THEN <<>>
  ELSE CreatedConversations(store, n - 1)
         \o (IF store[NewServerConvId(n)] # <<>> THEN <<NewServerConv(n)>> ELSE <<>>)

\* GET /conversations: the stored conversations and those POST /chat created
BadgeServerConversations(store, gone) ==
  ServerConversations(gone) \o CreatedConversations(store, MaxSends)

\* data.conversation of GET /conversations/{id}
ServerConversation(store, gone, id) ==
  LET all == BadgeServerConversations(store, gone)
      IsIt(c) == c.id = id
      found == SelectSeq(all, IsIt)
  IN  IF found = <<>> THEN NoConv ELSE found[1]

\* PUT /conversations/{id} with {messages}: the conversation keeps the
\* messages the payload names
ServerPutConversation(store, convId, ids) ==
  LET Named(m) == Includes(ids, m.id)
  IN  [store EXCEPT ![convId] = SelectSeq(@, Named)]

\* messageList.filter((m) => !isMessageLocallyDeleted(String(id), String(m.id)))
BadgeLoaded(store, reactions, map, id) ==
  LET NotDeleted(m) == ~isMessageLocallyDeleted(map, id, m.id)
  IN  [i \in 1..Len(SelectSeq(store[id], NotDeleted)) |->
         ServedMessage(SelectSeq(store[id], NotDeleted)[i], reactions)]

\* useEffect(..., [currentConversation?.id]): the request it starts when the
\* id of the current conversation changes to newId
BadgeIdEffect(reqs, oldId, newId) ==
  IF newId # oldId /\ newId # Undefined
    THEN reqs (+) One([id |-> newId, stage |-> "conversation"])
    ELSE reqs

\* mount: the effect that runs loadAgents and then loadConversations; the
\* effect on currentConversation?.id finds no conversation
badge_Mount ==
  /\ ~bMounted
  /\ bMounted' = TRUE
  /\ bConvReqs' = bConvReqs (+) One([cur |-> ConvIdOf(bCurrentConversation)])
  /\ bMessages' = <<>>
  /\ UNCHANGED <<bConversations, bCurrentConversation, bDeleted, bLoadReqs,
                 bChatReqs, bDelReqs, bReactReqs, bSendNo, bReactNo, srvReactions>>
  /\ UNCHANGED <<mainVars, srv, srvGone>>

\* loadConversations: GET /conversations answers 2xx with an array
badge_loadConversationsOk(r) ==
  /\ bMounted
  /\ BagIn(r, bConvReqs)
  /\ LET data == BadgeServerConversations(srv, srvGone)
         pick == r.cur = Undefined /\ Len(data) > 0
         after == IF pick THEN data[1] ELSE bCurrentConversation
     IN  /\ bConversations' = data
         /\ bCurrentConversation' = after
         /\ bLoadReqs' = BadgeIdEffect(bLoadReqs, ConvIdOf(bCurrentConversation),
                                       ConvIdOf(after))
  /\ bConvReqs' = bConvReqs (-) One(r)
  /\ UNCHANGED <<bMounted, bMessages, bDeleted, bChatReqs, bDelReqs, bReactReqs,
                 bSendNo, bReactNo, srvReactions>>
  /\ UNCHANGED <<mainVars, srv, srvGone>>

\* loadConversations: the fetch fails or answers another status
badge_loadConversationsFail(r) ==
  /\ bMounted
  /\ BagIn(r, bConvReqs)
  /\ bConversations' = <<>>
  /\ bConvReqs' = bConvReqs (-) One(r)
  /\ UNCHANGED <<bMounted, bCurrentConversation, bMessages, bDeleted, bLoadReqs,
                 bChatReqs, bDelReqs, bReactReqs, bSendNo, bReactNo, srvReactions>>
  /\ UNCHANGED <<mainVars, srv, srvGone>>

\* onSelect of the sidebar: setCurrentConversation(c); loadConversation(c.id),
\* and the effect on currentConversation?.id calls loadConversation again
\* when the id changed
badge_onSelect(i) ==
  /\ bMounted
  /\ i \in 1..Len(bConversations)
  /\ BagCardinality(bLoadReqs) + 2 <= MaxLoads
  /\ bCurrentConversation' = bConversations[i]
  /\ bLoadReqs' =
       BadgeIdEffect(bLoadReqs (+) One([id |-> bConversations[i].id,
                                        stage |-> "conversation"]),
                     ConvIdOf(bCurrentConversation), bConversations[i].id)
  /\ UNCHANGED <<bMounted, bConversations, bMessages, bDeleted, bConvReqs,
                 bChatReqs, bDelReqs, bReactReqs, bSendNo, bReactNo, srvReactions>>
  /\ UNCHANGED <<mainVars, srv, srvGone>>

\* loadConversation(id): GET /conversations/{id} answers 2xx
badge_loadConversationOk(q) ==
  /\ bMounted
  /\ BagIn(q, bLoadReqs)
  /\ q.stage = "conversation"
  /\ LET served == ServerConversation(srv, srvGone, q.id)
         \* conv || { id }
         conv == IF served = NoConv
                   THEN [id |-> q.id, title |-> <<"undefined">>, updated_at |-> 0]
                   ELSE served
     IN  /\ bCurrentConversation' = conv
         /\ bLoadReqs' = BadgeIdEffect(bLoadReqs (-) One(q),
                                       ConvIdOf(bCurrentConversation), q.id)
  /\ bMessages' = BadgeLoaded(srv, srvReactions, bDeleted, q.id)
  /\ UNCHANGED <<bMounted, bConversations, bDeleted, bConvReqs, bChatReqs,
                 bDelReqs, bReactReqs, bSendNo, bReactNo, srvReactions>>
  /\ UNCHANGED <<mainVars, srv, srvGone>>

\* loadConversation(id): GET /conversations/{id} fails, the catch block asks
\* for /conversations/{id}/messages
badge_loadConversationFail(q) ==
  /\ bMounted
  /\ BagIn(q, bLoadReqs)
  /\ q.stage = "conversation"
  /\ bLoadReqs' = (bLoadReqs (-) One(q)) (+) One([q EXCEPT !.stage = "messages"])
  /\ UNCHANGED <<bMounted, bConversations, bCurrentConversation, bMessages,
                 bDeleted, bConvReqs, bChatReqs, bDelReqs, bReactReqs, bSendNo,
                 bReactNo, srvReactions>>
  /\ UNCHANGED <<mainVars, srv, srvGone>>

\* loadConversation(id): the fallback request is answered, 2xx or not
badge_loadMessagesDone(q, ok) ==
  /\ bMounted
  /\ BagIn(q, bLoadReqs)
  /\ q.stage = "messages"
  /\ bLoadReqs' = bLoadReqs (-) One(q)
  /\ bMessages' = IF ok THEN BadgeLoaded(srv, srvReactions, bDeleted, q.id) ELSE <<>>
  /\ UNCHANGED <<bMounted, bConversations, bCurrentConversation, bDeleted,
                 bConvReqs, bChatReqs, bDelReqs, bReactReqs, bSendNo, bReactNo,
                 srvReactions>>
  /\ UNCHANGED <<mainVars, srv, srvGone>>

\* sendMessage() up to its await
badge_sendMessage(text) ==
  /\ bMounted
  /\ Trim(text) # <<>>
  /\ bSendNo < MaxSends
  /\ LET tmpId == <<"tmp-", bSendNo + 1>>
         userMessage == BMsg(tmpId, "user", Trim(text), 0, 0, TRUE)
     IN  /\ bMessages' = Append(bMessages, userMessage)
         /\ bChatReqs' = bChatReqs (+)
              One([tmpId |-> tmpId, n |-> bSendNo + 1, message |-> Trim(text),
                   cur |-> ConvIdOf(bCurrentConversation)])
  /\ bSendNo' = bSendNo + 1
  /\ UNCHANGED <<bMounted, bConversations, bCurrentConversation, bDeleted,
                 bConvReqs, bLoadReqs, bDelReqs, bReactReqs, bReactNo, srvReactions>>
  /\ UNCHANGED <<mainVars, srv, srvGone>>

\* sendMessage: POST /chat answers 2xx
badge_sendMessageOk(r, withId) ==
  /\ bMounted
  /\ BagIn(r, bChatReqs)
  /\ LET convId == IF r.cur = Undefined THEN NewServerConvId(r.n) ELSE r.cur
         json == ChatReply(convId, r.n, withId)
         replaced ==
           [i \in 1..Len(bMessages) |->
              IF bMessages[i].id = r.tmpId
                THEN [bMessages[i] EXCEPT
                        !.sending = FALSE,
                        !.id = OrElse(Field(json, "user_message_id"), bMessages[i].id)]
                ELSE bMessages[i]]
         reply == BMsg(<<"ai-", r.n>>, "assistant", json.ai_response, 0, 0, FALSE)
         conv == [id |-> json.conversation_id, title |-> <<"Conversation">>,
                  updated_at |-> 0]
         after == IF r.cur = Undefined THEN conv ELSE bCurrentConversation
     IN  /\ srv' = ServerStoreChat(srv, convId, r.n, r.message)
         /\ bMessages' = Append(replaced, reply)
         /\ bCurrentConversation' = after
         /\ bLoadReqs' = BadgeIdEffect(bLoadReqs, ConvIdOf(bCurrentConversation),
                                       ConvIdOf(after))
         /\ bConvReqs' = bConvReqs (+) One([cur |-> r.cur])
  /\ bChatReqs' = bChatReqs (-) One(r)
  /\ UNCHANGED <<bMounted, bConversations, bDeleted, bDelReqs, bReactReqs,
                 bSendNo, bReactNo, srvReactions>>
  /\ UNCHANGED <<mainVars, srvGone>>

\* sendMessage: the catch block
badge_sendMessageFail(r) ==
  /\ bMounted
  /\ BagIn(r, bChatReqs)
  /\ bMessages' = Append(bMessages,
                         BMsg(<<"ai-err", r.n>>, "assistant", BadgeErrorText, 0, 0, FALSE))
  /\ bChatReqs' = bChatReqs (-) One(r)
  /\ UNCHANGED <<bMounted, bConversations, bCurrentConversation, bDeleted,
                 bConvReqs, bLoadReqs, bDelReqs, bReactReqs, bSendNo, bReactNo,
                 srvReactions>>
  /\ UNCHANGED <<mainVars, srv, srvGone>>

\* bDelReqs without its k-th request
WithoutRequest(reqs, k) ==
  [j \in 1..(Len(reqs) - 1) |-> IF j < k THEN reqs[j] ELSE reqs[j + 1]]

\* the ids of (messages || []).filter((m) => m.id !== msg.id)
PayloadMessages(list, id) ==
  LET Other(m) == m.id # id
  IN  [j \in 1..Len(SelectSeq(list, Other)) |-> SelectSeq(list, Other)[j].id]

\* deleteMessage(msg) up to its first await (Delete in the toolbar of a user
\* message); the request keeps the handler's currentConversation?.id and
\* messages
badge_deleteMessage(i) ==
  /\ bMounted
  /\ i \in 1..Len(bMessages)
  /\ isOwn(bMessages[i])
  /\ Len(bDelReqs) < MaxDeletes
  /\ LET msg == bMessages[i]
         Keep(m) == m.id # msg.id
     IN  /\ bMessages' = SelectSeq(bMessages, Keep)
         /\ bDelReqs' = Append(bDelReqs,
              [id |-> msg.id, stage |-> "DELETE",
               cur |-> ConvIdOf(bCurrentConversation),
               payload |-> PayloadMessages(bMessages, msg.id)])
  /\ UNCHANGED <<bMounted, bConversations, bCurrentConversation, bDeleted,
                 bConvReqs, bLoadReqs, bChatReqs, bReactReqs, bSendNo, bReactNo,
                 srvReactions>>
  /\ UNCHANGED <<mainVars, srv, srvGone>>

\* deleteMessage: DELETE /messages/{id} answers 2xx
badge_deleteMessageOk(k) ==
  /\ bMounted
  /\ k \in 1..Len(bDelReqs)
  /\ bDelReqs[k].stage = "DELETE"
  /\ LET d == bDelReqs[k]
     IN  /\ bDeleted' = removeLocalDeletedMark(
                          bDeleted, IF d.cur = Undefined THEN EmptyKey ELSE d.cur, d.id)
         /\ srv' = ServerDeleteMessage(srv, d.id)
  /\ bDelReqs' = WithoutRequest(bDelReqs, k)
  /\ UNCHANGED <<bMounted, bConversations, bCurrentConversation, bMessages,
                 bConvReqs, bLoadReqs, bChatReqs, bReactReqs, bSendNo, bReactNo,
                 srvReactions>>
  /\ UNCHANGED <<mainVars, srvGone>>

\* deleteMessage: DELETE /messages/{id} fails or answers another status;
\* fallback #1 sends PUT /conversations/{convId} when the handler has a
\* conversation id, fallback #2 marks the message otherwise
badge_deleteMessageFail(k) ==
  /\ bMounted
  /\ k \in 1..Len(bDelReqs)
  /\ bDelReqs[k].stage = "DELETE"
  /\ LET d == bDelReqs[k]
     IN  IF d.cur # Undefined
           THEN /\ bDelReqs' = [bDelReqs EXCEPT ![k].stage = "PUT"]
                /\ UNCHANGED bDeleted
           ELSE /\ bDelReqs' = WithoutRequest(bDelReqs, k)
                /\ bDeleted' = markMessageDeletedLocally(bDeleted, LocalKey, d.id)
  /\ UNCHANGED <<bMounted, bConversations, bCurrentConversation, bMessages,
                 bConvReqs, bLoadReqs, bChatReqs, bReactReqs, bSendNo, bReactNo,
                 srvReactions>>
  /\ UNCHANGED <<mainVars, srv, srvGone>>

\* deleteMessage: PUT /conversations/{convId} answers 2xx
badge_putConversationOk(k) ==
  /\ bMounted
  /\ k \in 1..Len(bDelReqs)
  /\ bDelReqs[k].stage = "PUT"
  /\ srv' = ServerPutConversation(srv, bDelReqs[k].cur, bDelReqs[k].payload)
  /\ bDelReqs' = WithoutRequest(bDelReqs, k)
  /\ UNCHANGED <<bMounted, bConversations, bCurrentConversation, bMessages,
                 bDeleted, bConvReqs, bLoadReqs, bChatReqs, bReactReqs, bSendNo,
                 bReactNo, srvReactions>>
  /\ UNCHANGED <<mainVars, srvGone>>

\* deleteMessage: PUT /conversations/{convId} fails or answers another
\* status; fallback #2
badge_putConversationFail(k) ==
  /\ bMounted
  /\ k \in 1..Len(bDelReqs)
  /\ bDelReqs[k].stage = "PUT"
  /\ bDeleted' = markMessageDeletedLocally(bDeleted, bDelReqs[k].cur, bDelReqs[k].id)
  /\ bDelReqs' = WithoutRequest(bDelReqs, k)
  /\ UNCHANGED <<bMounted, bConversations, bCurrentConversation, bMessages,
                 bConvReqs, bLoadReqs, bChatReqs, bReactReqs, bSendNo, bReactNo,
                 srvReactions>>
  /\ UNCHANGED <<mainVars, srv, srvGone>>

\* (m.likes || 0) + 1 for the reaction given, m.likes || 0 for the other
Reacted_Both(m, reaction) ==
  [m EXCEPT !.likes = @ + 1, !.dislikes = @ + 1]

Reacted(m, reaction) ==
  [m EXCEPT !.likes = IF reaction = "like" THEN @ + 1 ELSE @,
            !.dislikes = IF reaction = "dislike" THEN @ + 1 ELSE @]

\* setMessages((prev) => prev.map((m) => (m.id === id ? {...} : m)))
ReactedList(prev, id, reaction) ==
  [j \in 1..Len(prev) |->
     IF prev[j].id = id THEN Reacted(prev[j], reaction) ELSE prev[j]]

\* reactMessage(id, reaction) up to its await (Like and Dislike under an
\* assistant message)
badge_reactMessage(i, reaction) ==
  /\ bMounted
  /\ i \in 1..Len(bMessages)
  /\ ~isOwn(bMessages[i])
  /\ bReactNo < MaxReacts
  /\ bMessages' = ReactedList(bMessages, bMessages[i].id, reaction)
  /\ bReactReqs' = bReactReqs (+) One(ReactionOf(bMessages[i].id, reaction))
  /\ bReactNo' = bReactNo + 1
  /\ UNCHANGED <<bMounted, bConversations, bCurrentConversation, bDeleted,
                 bConvReqs, bLoadReqs, bChatReqs, bDelReqs, bSendNo, srvReactions>>
  /\ UNCHANGED <<mainVars, srv, srvGone>>

\* reactMessage: POST /messages/{id}/reaction is answered, 2xx or not; the
\* handler logs a warning at most
badge_reactMessageDone(q, ok) ==
  /\ bMounted
  /\ BagIn(q, bReactReqs)
  /\ bReactReqs' = bReactReqs (-) One(q)
  /\ UNCHANGED bMessages
  /\ srvReactions' = IF ok THEN srvReactions (+) One(q) ELSE srvReactions
  /\ UNCHANGED <<bMounted, bConversations, bCurrentConversation, bDeleted,
                 bConvReqs, bLoadReqs, bChatReqs, bDelReqs, bSendNo, bReactNo>>
  /\ UNCHANGED <<mainVars, srv, srvGone>>

BadgeMsgIds ==
  {<<"srv-u-", 0>>, <<"srv-a-", 0>>, <<"srv-u-", 9>>}
    \cup {<<k, n>> : k \in {"tmp-", "srv-u-", "srv-a-", "ai-", "ai-err"},
                     n \in 1..MaxSends}
BadgeConvReqUniverse == [cur : AllConvIds]
BadgeLoadReqUniverse == [id : AllConvIds, stage : {"conversation", "messages"}]
BadgeChatReqUniverse ==
  {[tmpId |-> <<"tmp-", n>>, n |-> n, message |-> Trim(text), cur |-> c] :
     n \in 1..MaxSends, text \in BadgeInputs, c \in AllConvIds}
BadgeReactReqUniverse == [id : BadgeMsgIds, reaction : Reactions]

\* the badge.jsx component: loading, sending, deleting messages
NextBadgeDelete ==
  \/ badge_Mount
  \/ \E r \in BadgeConvReqUniverse : badge_loadConversationsOk(r)
  \/ \E q \in BadgeLoadReqUniverse : badge_loadConversationOk(q)
  \/ \E text \in BadgeInputs : badge_sendMessage(text)
  \/ \E r \in BadgeChatReqUniverse, withId \in BOOLEAN : badge_sendMessageOk(r, withId)
  \/ \E r \in BadgeChatReqUniverse : badge_sendMessageFail(r)
  \/ \E i \in 1..MaxList : badge_deleteMessage(i)
  \/ \E k \in 1..MaxDeletes : badge_deleteMessageOk(k)
  \/ \E k \in 1..MaxDeletes : badge_deleteMessageFail(k)
  \/ \E k \in 1..MaxDeletes : badge_putConversationOk(k)
  \/ \E k \in 1..MaxDeletes : badge_putConversationFail(k)

SpecBadgeDelete == Init /\ [][NextBadgeDelete]_vars

\* the badge.jsx component: loading, sending, reacting to the answers
NextBadgeReact ==
  \/ badge_Mount
  \/ \E r \in BadgeConvReqUniverse : badge_loadConversationsOk(r)
  \/ \E r \in BadgeConvReqUniverse : badge_loadConversationsFail(r)
  \/ \E i \in 1..MaxConvs : badge_onSelect(i)
  \/ \E q \in BadgeLoadReqUniverse : badge_loadConversationOk(q)
  \/ \E q \in BadgeLoadReqUniverse : badge_loadConversationFail(q)
  \/ \E q \in BadgeLoadReqUniverse, ok \in BOOLEAN : badge_loadMessagesDone(q, ok)
  \/ \E i \in 1..MaxList, reaction \in Reactions : badge_reactMessage(i, reaction)
  \/ \E q \in BadgeReactReqUniverse, ok \in BOOLEAN : badge_reactMessageDone(q, ok)

SpecBadgeReact == Init /\ [][NextBadgeReact]_vars

ConvDelReqUniverse == [id : AllConvIds, cur : AllConvIds]

\* the sidebar: selecting and deleting conversations, with a backend that
\* serves the lists
NextConvDelete ==
  \/ \E dev \in BOOLEAN : Mount(dev)
  \/ loadConversationsOk
  \/ \E i \in 1..MaxConvs : onSelect(i)
  \/ \E c \in AllConvIds : loadMessagesOk(c)
  \/ \E i \in 1..MaxConvs, answer \in ConfirmAnswers : deleteConversation(i, answer)
  \/ \E r \in ConvDelReqUniverse : deleteConversationOk(r)
  \/ \E r \in ConvDelReqUniverse : deleteConversationFail(r)

SpecConvDelete == Init /\ [][NextConvDelete]_vars

\* ================================================================== claims
\* no message-related request is in flight
Settled == chatReq = NoReq /\ loadReqs = EmptyBag /\ delReqs = EmptyBag

\* C1: once the requests of a successful send with non-empty text have
\* settled, the visible list holds the sent user message (under its temporary
\* or its server id) and, after it, the assistant reply of that send.
C1_UserThenAssistant ==
  (Settled /\ lastSend.status = "ok" /\ lastSend.message # <<>>) =>
    \E i, j \in 1..Len(messages) :
      /\ i < j
      /\ messages[i].role = "user"
      /\ messages[i].content = lastSend.message
      /\ messages[i].id \in {<<"msg-temp-", lastSend.n>>, <<"srv-u-", lastSend.n>>}
      /\ messages[j].role = "assistant"
      /\ messages[j].id \in {<<"msg-", lastSend.n>>, <<"srv-a-", lastSend.n>>}

\* C2: once its DELETE has been answered, a message deleteMessage was called
\* with is not in the visible list, whatever was reloaded since and whatever
\* the answer was.
C2_DeletedStaysAbsent ==
  delReqs = EmptyBag =>
    \A i \in 1..Len(messages) : messages[i].id \notin deletedIds

\* C3: when the page is reloaded with theme T, the mount that follows ends
\* with theme T and localStorage['rockbot_theme_v1'] = T.
C3_ThemeSurvivesReload ==
  [][ \A dev \in BOOLEAN :
        (Mount(dev) /\ reloadedTheme # "none") =>
          (theme' = reloadedTheme /\ lsTheme' = reloadedTheme) ]_vars

\* C4: once all requests have settled, every visible message belongs to the
\* current conversation C, and the list is what the backend holds for C
\* minus the locally deleted ids (or the mock greeting of a failed load).
C4_ListIsCurrentConversation ==
  (Settled /\ currentConversation # NoConv /\ lastSend = NoSend) =>
    LET c == ConvIdOf(currentConversation)
        NotDeleted(msg) == ~isMessageLocallyDeleted(lsDeleted, c, msg.id)
    IN  /\ \A i \in 1..Len(messages) : messages[i].conv = c
        /\ \/ messages = SelectSeq(srv[c], NotDeleted)
           \/ messages = << HelloMessage(c) >>

\* C7: no visible message has its id in the local deleted list stored for
\* the current conversation.
C7_NoMarkedMessageVisible ==
  \A i \in 1..Len(messages) :
    ~isMessageLocallyDeleted(lsDeleted, ConvIdOf(currentConversation), messages[i].id)

\* C8: every chat request carries message (the trimmed input),
\* conversation_id and agent_type (the selected agent), and the assistant
\* bubble appended on success shows the reply's ai_response.
C8_ChatWireFormat ==
  /\ chatReq # NoReq =>
       /\ {"message", "conversation_id", "agent_type"} \subseteq DOMAIN chatReq.payload
       /\ chatReq.payload.message = lastSend.message
       /\ chatReq.payload.conversation_id = chatReq.convId
       /\ Field(chatReq.payload, "agent_type") = selectedAgent
  /\ \A i \in 1..Len(messages) :
       (messages[i].id[1] = "msg-" /\ messages[i].id[2] >= 1) =>
         messages[i].content = AiText

\* C6: when DELETE /messages/{id} fails, the id is in the local deleted list
\* of the conversation that was current at the delete; when it succeeds, the
\* id is not in that list.
C6_MarkFollowsOutcome ==
  [][ \A d \in BagToSet(delReqs) :
        /\ deleteMessageFail(d) => isMessageLocallyDeleted(lsDeleted', d.conv, d.id)
        /\ deleteMessageOk(d) => ~isMessageLocallyDeleted(lsDeleted', d.conv, d.id) ]_vars

\* C9: a successful send whose reply carries user_message_id leaves the
\* optimistic user message in place with the server id instead of the
\* temporary one; a reply without id leaves the temporary id.
C9_TentativeIdReplaced ==
  [][ \A withId \in BOOLEAN :
        sendMessageOk(withId) =>
          \A i \in 1..Len(messages) :
            messages[i].id = chatReq.tempMsgId =>
              /\ messages'[i].content = messages[i].content
              /\ messages'[i].id =
                   IF withId THEN ChatReply(chatReq.convId, chatReq.n, TRUE).user_message_id
                   ELSE chatReq.tempMsgId ]_vars

\* C5: when POST /chat fails, the list changes by exactly one message: an
\* assistant-role message with the error text is appended at the end, so
\* after the optimistic user message, which stays where it was like every
\* other message.
C5_ErrorAppended ==
  [][ \A kind \in ErrorKinds :
        sendMessageFail(kind) =>
          /\ Len(messages') = Len(messages) + 1
          /\ SubSeq(messages', 1, Len(messages)) = messages
          /\ messages'[Len(messages')].role = "assistant"
          /\ messages'[Len(messages')].content = ErrorText(kind)
          /\ \A i \in 1..Len(messages) :
               messages[i].id = chatReq.tempMsgId =>
                 (messages'[i] = messages[i] /\ messages'[i].role = "user") ]_vars

C5_Witness ==
  /\ lastSend.status = "failed"
  /\ \E i \in 1..(Len(messages) - 1) :
       /\ i > 1
       /\ messages[i].id = <<"msg-temp-", lastSend.n>>
       /\ messages[i + 1].id = <<"msg-error-", lastSend.n>>
       /\ messages[i + 1].role = "assistant"

C16_ThemeApplied ==
  /\ [](pc = "ready" =>
         /\ htmlDark <=> (theme = "dark")
         /\ lsTheme = theme
         /\ theme \in {"light", "dark"})
  /\ [][toggleTheme => Flip(theme') = theme]_vars

C16_Witness ==
  pc = "ready" /\ theme = "dark" /\ htmlDark /\ lsTheme = "dark" /\ reloadedTheme = "light"

\* C20: when the reply to a send that started with no current conversation
\* arrives with a conversation_title, the conversation the send created gets
\* that title and a refreshed updated_at, in currentConversation and in its
\* entry of the conversations list, and the current conversation and its
\* entry carry the same title.
C20_NewConversationRetitled ==
  [][ \A withId \in BOOLEAN :
        (sendMessageOk(withId) /\ chatReq.cur = NoConv) =>
          LET reply == ChatReply(chatReq.convId, chatReq.n, withId)
              Retitled(c) == /\ c.title = reply.conversation_title
                             /\ c.updated_at = chatReq.n
          IN  "conversation_title" \in DOMAIN reply =>
                /\ ConvIdOf(currentConversation') = chatReq.convId =>
                     Retitled(currentConversation')
                /\ \A i \in 1..Len(conversations') :
                     conversations'[i].id = chatReq.convId => Retitled(conversations'[i])
                /\ \A i \in 1..Len(conversations') :
                     conversations'[i].id = ConvIdOf(currentConversation') =>
                       conversations'[i].title = currentConversation'.title ]_vars

\* C11: while manualScroll is true a change of the message list, of
\* isSending or of isTyping does not scroll the view to the bottom, while it
\* is false every such change does; a scroll event that leaves the view more
\* than 10px above the bottom sets manualScroll, one that leaves it within
\* 10px of the bottom clears it.
C11_AutoscrollUnlessScrolledUp ==
  [][ /\ (messages' # messages \/ isSending' # isSending \/ isTyping' # isTyping) =>
           (EffectScrolls(ScrollRefCurrent, manualScroll', isSending', isTyping')
              <=> ~manualScroll')
      /\ \A d \in ScrollDists :
           userScroll(d) => (manualScroll' <=> d > ScrollTolerance) ]_vars

\* C15: every file chosen gets exactly one onUploadComplete call, made when
\* its POST /api/upload is over, with the file's name, data = the answer's
\* JSON on success and data = null plus an error text otherwise; isUploading
\* is false after the call in every case.
C15_UploadCompletesOnce ==
  /\ [](nChosen = nCompleted + (IF uploadReq = NoReq THEN 0 ELSE 1))
  /\ [][ \A outcome \in UploadOutcomes :
           handleFileDone(outcome) =>
             /\ nCompleted' = nCompleted + 1
             /\ uploadedFile'.name = uploadReq.name
             /\ IF outcome = "ok"
                  THEN /\ uploadedFile'.data = UploadJson(uploadReq.name)
                       /\ "error" \notin DOMAIN uploadedFile'
                  ELSE /\ uploadedFile'.data = Null
                       /\ "error" \in DOMAIN uploadedFile'
             /\ ~isUploading' ]_vars

C15_Witness ==
  /\ nChosen = 2 /\ nCompleted = 2 /\ ~isUploading
  /\ uploadedFile # NoFile /\ uploadedFile.name = "f2" /\ uploadedFile.data = Null

AllBlank(text) == \A i \in 1..Len(text) : text[i] = SP

\* C17: in a state where isSending is true, or the input is blank and no
\* file is attached, no step is an accepted send: no temporary id is drawn
\* and no user message appended, no conversation is created, no chat request
\* is issued.
C17_BlockedSendIsNoOp ==
  [][ (isSending \/ (AllBlank(input) /\ uploadedFile = NoFile)) =>
        /\ sendNo' = sendNo
        /\ nConv' = nConv
        /\ chatInFlight' <= chatInFlight
        /\ \A i \in 1..Len(messages') : messages'[i].id # <<"msg-temp-", sendNo + 1>>
        /\ ~sendMessage ]_vars

C17_Witness ==
  /\ pc = "ready" /\ ~isSending /\ input = <<SP>> /\ uploadedFile = NoFile
  /\ sendNo < MaxSends

\* C18: at most one POST /api/chat is in flight, and isSending is true
\* exactly when one is.
C18_OneChatInFlight ==
  /\ chatInFlight <= 1
  /\ isSending <=> (chatInFlight = 1)
  /\ (chatReq # NoReq) <=> (chatInFlight = 1)

C18_Witness ==
  isSending /\ chatInFlight = 1 /\ uploadedFile # NoFile

\* C19: if every POST /api/chat settles in the end, every accepted
\* sendMessage is followed by a state where isSending and isTyping are both
\* false.
C19_SendingEnds == isSending ~> (~isSending /\ ~isTyping)

C19_Witness ==
  /\ ~isSending /\ ~isTyping /\ sendNo = 1 /\ chatInFlight = 0
  /\ \E i \in 1..Len(messages) : messages[i].id = <<"msg-error-", 1>>
                                   /\ messages[i].content = ErrorText("parse")

\* C12: a POST /api/chat is issued only by an accepted sendMessage, one per
\* call, and the step that handles its failure leaves none in flight; the
\* steps that handle a failed PUT or DELETE take that request out of flight
\* and put none in, and only saveEditedMessage and deleteMessage issue one.
C12_NoRetry ==
  [][ /\ sendMessage => chatInFlight' = chatInFlight + 1
      /\ chatInFlight' > chatInFlight => sendMessage
      /\ \A kind \in ErrorKinds :
           sendMessageFail(kind) => (chatInFlight' = chatInFlight - 1 /\ chatReq' = NoReq)
      /\ \A e \in BagToSet(putReqs) :
           saveEditedMessageFail(e) =>
             BagCardinality(putReqs') = BagCardinality(putReqs) - 1
      /\ BagCardinality(putReqs') > BagCardinality(putReqs) =>
           (saveEditedMessage /\ BagCardinality(putReqs') = BagCardinality(putReqs) + 1)
      /\ \A d \in BagToSet(delReqs) :
           deleteMessageFail(d) =>
             BagCardinality(delReqs') = BagCardinality(delReqs) - 1
      /\ BagCardinality(delReqs') > BagCardinality(delReqs) =>
           /\ \E i \in 1..MaxList : deleteMessage(i)
           /\ BagCardinality(delReqs') = BagCardinality(delReqs) + 1 ]_vars

C12_Witness ==
  /\ chatInFlight = 0 /\ sendNo = 1 /\ ~isSending
  /\ \E i \in 1..Len(messages) : messages[i].id = <<"msg-error-", 1>>
  /\ putReqs = EmptyBag /\ delReqs = EmptyBag
  /\ deletedIds # {} /\ lsDeleted # EmptyDeletedMap(AllConvIds)

\* C13: the state each handler reaches before its request is answered shows
\* the change: after sendMessage the new user message ends the list and the
\* POST is pending, after saveEditedMessage the edited message shows the new
\* content and the PUT is pending, after deleteMessage the message is gone
\* from the list and the DELETE is pending.
C13_OptimisticUpdate ==
  [][ /\ sendMessage =>
           /\ chatReq' # NoReq
           /\ messages' # <<>>
           /\ messages'[Len(messages')] =
                Msg(<<"msg-temp-", sendNo + 1>>, "user", Trim(input), chatReq'.convId)
      /\ saveEditedMessage =>
           /\ BagIn([id |-> editingId, content |-> editingText], putReqs')
           /\ Len(messages') = Len(messages)
           /\ \A i \in 1..Len(messages) :
                messages[i].id = editingId => messages'[i].content = editingText
      /\ \A i \in 1..MaxList :
           deleteMessage(i) =>
             /\ \E d \in BagToSet(delReqs') : d.id = messages[i].id
             /\ \A j \in 1..Len(messages') : messages'[j].id # messages[i].id ]_vars

C13_Witness ==
  /\ putReqs # EmptyBag
  /\ \E i \in 1..Len(messages) :
       /\ messages[i].role = "user" /\ messages[i].content = <<"e">>
       /\ BagIn([id |-> messages[i].id, content |-> <<"e">>], putReqs)

IsAssistant(msg) == msg.role = "assistant"

\* C14: startEdit and deleteMessage are only ever called with a user
\* message, the message being edited is a user message, and a deleteMessage
\* or saveEditedMessage step leaves the assistant messages of the list as
\* they were.
C14_OnlyOwnMessagesChanged ==
  /\ [](editingId # Null =>
          \A i \in 1..Len(messages) :
            messages[i].id = editingId => messages[i].role = "user")
  /\ [][ /\ \A i \in 1..MaxList :
              (startEdit(i) \/ deleteMessage(i)) => messages[i].role = "user"
         /\ ((\E i \in 1..MaxList : deleteMessage(i)) \/ saveEditedMessage) =>
              SelectSeq(messages', IsAssistant) = SelectSeq(messages, IsAssistant) ]_vars

C14_Witness ==
  /\ deletedIds # {}
  /\ putReqs # EmptyBag
  /\ \E i \in 1..Len(messages) : messages[i].role = "assistant"

\* C25: a step that handles the answer to POST /chat (reply or failure) of a
\* send made in one conversation, taken while another conversation or no
\* conversation is current, adds no message to the visible list.
C25_ReplyStaysInItsConversation ==
  [][ ((\E withId \in BOOLEAN : sendMessageOk(withId))
         \/ (\E kind \in ErrorKinds : sendMessageFail(kind)))
      /\ chatReq.convId # ConvIdOf(currentConversation)
      => \A i \in 1..Len(messages') :
           messages'[i].id \notin {<<"msg-", chatReq.n>>,
                                  <<"msg-error-", chatReq.n>>} ]_vars

\* The message a list entry stands for: the user message or the answer of
\* one send, whatever id it currently carries (the temporary id is replaced
\* by the server's when the reply arrives).
SameMessage(a, b) == a.role = b.role /\ a.id[2] = b.id[2]

Remains(old, new) ==
  LET InNew(m) == \E j \in 1..Len(new) : SameMessage(m, new[j])
  IN  SelectSeq(old, InNew)

C22_EditTouchesOneMessage ==
  [][ /\ saveEditedMessage =>
           /\ Len(messages') = Len(messages)
           /\ \A i \in 1..Len(messages) :
                IF messages[i].id = editingId
                  THEN /\ messages'[i].content = editingText
                       /\ DOMAIN messages'[i] = DOMAIN messages[i]
                       /\ \A f \in DOMAIN messages[i] \ {"content", "timestamp"} :
                            messages'[i][f] = messages[i][f]
                  ELSE messages'[i] = messages[i]
           /\ editingId' = Null
           /\ editingText' = <<>>
      /\ \A e \in BagToSet(putReqs) :
           saveEditedMessageFail(e) => messages' = messages ]_vars

\* the PUT of an edit has failed and the list still shows the edited text
\* and the new timestamp, next to an untouched assistant message
C22_Witness ==
  /\ putReqs = EmptyBag /\ editingId = Null
  /\ Len(messages) = 2
  /\ messages[1].content = <<"e">> /\ messages[1].timestamp = EditedAt
  /\ messages[2].role = "assistant" /\ messages[2].timestamp = CreatedAt

\* C21: a deleteConversation call the user declines sends no request and
\* leaves the conversations, the current conversation and the messages as
\* they are; the step that handles the answer to DELETE /conversations/{id},
\* 2xx or not, removes that conversation from the list and keeps every other
\* one in its place, and it sets currentConversation to null and empties the
\* message list when the conversation was the current one at the call, and
\* leaves both as they are otherwise.
C21_DeleteConversation ==
  [][ /\ \A i \in 1..MaxConvs :
           deleteConversation(i, "declined") =>
             UNCHANGED <<conversations, currentConversation, messages,
                         convDelReqs, chatReq, loadReqs, delReqs, putReqs,
                         convReqs, srv, srvGone, lsDeleted>>
      /\ \A r \in BagToSet(convDelReqs) :
           (deleteConversationOk(r) \/ deleteConversationFail(r)) =>
             /\ \A j \in 1..Len(conversations') : conversations'[j].id # r.id
             /\ LET Other(c) == c.id # r.id
                IN  conversations' = SelectSeq(conversations, Other)
             /\ IF r.cur = r.id
                  THEN currentConversation' = NoConv /\ messages' = <<>>
                  ELSE UNCHANGED <<currentConversation, messages>> ]_vars

\* the user selected a conversation and, its messages still loading,
\* confirmed its deletion; the DELETE is answered: the conversation is gone
\* from the list, no conversation is current, the other one is still listed
C21_Witness ==
  /\ lastConfirm = "accepted"
  /\ BagIn(SeedConvA.id, loadReqs)
  /\ convDelReqs = EmptyBag
  /\ srvGone = {SeedConvA.id}
  /\ conversations = <<SeedConvB>>
  /\ currentConversation = NoConv /\ messages = <<>>

\* C24: once the user has deleted the optimistic user message of a send
\* whose POST /chat was still in flight, that message is not in the visible
\* list again, neither under its temporary id nor under the id the backend
\* stored it with: not when the reply arrives, not when the conversation is
\* loaded from the backend afterwards.
C24_DeletedWhileSendingStaysGone ==
  \A i \in 1..Len(messages) :
    (messages[i].role = "user" /\ messages[i].id[1] \in {"msg-temp-", "srv-u-"})
      => <<"msg-temp-", messages[i].id[2]>> \notin deletedInFlight

\* C27: a reactMessage step keeps the length of the list, adds exactly 1 to
\* the likes counter ('like') or to the dislikes counter ('dislike') of the
\* messages whose id it was given, and leaves their other counter, their
\* other fields and every other message as they were; the step that handles
\* the answer to POST /messages/{id}/reaction, 2xx or not, leaves the list as
\* it is; and no step other than a load of the conversation from the backend
\* lowers a counter of a message that stays in the list.
C27_ReactionCounts ==
  [][ /\ \A i \in 1..MaxList, reaction \in Reactions :
           badge_reactMessage(i, reaction) =>
             /\ Len(bMessages') = Len(bMessages)
             /\ \A j \in 1..Len(bMessages) :
                  IF bMessages[j].id = bMessages[i].id
                    THEN /\ bMessages'[j].likes =
                              bMessages[j].likes + (IF reaction = "like" THEN 1 ELSE 0)
                         /\ bMessages'[j].dislikes =
                              bMessages[j].dislikes + (IF reaction = "dislike" THEN 1 ELSE 0)
                         /\ DOMAIN bMessages'[j] = DOMAIN bMessages[j]
                         /\ \A f \in DOMAIN bMessages[j] \ {"likes", "dislikes"} :
                              bMessages'[j][f] = bMessages[j][f]
                    ELSE bMessages'[j] = bMessages[j]
      /\ \A q \in BagToSet(bReactReqs), ok \in BOOLEAN :
           badge_reactMessageDone(q, ok) => bMessages' = bMessages
      /\ ~(\E q \in BagToSet(bLoadReqs) :
              \/ badge_loadConversationOk(q)
              \/ \E ok \in BOOLEAN : badge_loadMessagesDone(q, ok))
           => \A j \in 1..Len(bMessages), k \in 1..Len(bMessages') :
                bMessages'[k].id = bMessages[j].id =>
                  /\ bMessages'[k].likes >= bMessages[j].likes
                  /\ bMessages'[k].dislikes >= bMessages[j].dislikes ]_vars

\* an answer was liked once, the POST has failed, and the list still shows
\* the like next to an untouched user message
C27_Witness ==
  /\ bReactNo = 1 /\ bReactReqs = EmptyBag /\ srvReactions = EmptyBag
  /\ \E j \in 1..Len(bMessages) :
       ~isOwn(bMessages[j]) /\ bMessages[j].likes = 1 /\ bMessages[j].dislikes = 0
  /\ \E j \in 1..Len(bMessages) : isOwn(bMessages[j])

Marked(map, id) == \E key \in DOMAIN map : Includes(map[key], id)

====
